---- MODULE Spec2Model ----
(***************************************************************************)
(* Blob utilities for Fuel predicates (src/src/utils/blobUtils.ts).         *)
(*                                                                         *)
(* The module under study is a set of pure functions over byte arrays and  *)
(* an ABI object.  The state of the model is a caller's workspace: the     *)
(* full predicate bytecode, its ABI and a loader bytecode, together with   *)
(* the outcome of the last call made on them.  Init draws the workspace    *)
(* from bounded sets; each action is one exported function applied to the  *)
(* workspace.                                                              *)
(***************************************************************************)
EXTENDS Integers, Sequences, FiniteSets, TLC

VARIABLES
  fullBytecode,    \* Uint8Array: the full predicate image held by the caller
  fullAbi,         \* the ABI object (abi: any) held by the caller
  loaderBytecode,  \* Uint8Array: the loader image held by the caller
  call,            \* the last call made: [op, outcome]
  firstBlobId,     \* outcome of the earliest calculateBlobId call, or NoOutcome
  recalculated,    \* calculateBlobId has been called again after that first call
  utilArg,         \* the argument held for a call of a one-argument utility
  heap,            \* the buffers behind the caller's typed arrays, where modelled
  callers,         \* the calls in progress of several callers, where modelled
  gas,             \* the request and the provider of a gas estimation, where modelled
  deploy           \* the progress of a blob deployment, where modelled

vars == <<fullBytecode, fullAbi, loaderBytecode, call, firstBlobId, recalculated, utilArg,
          heap, callers, gas, deploy>>

\* The value of a variable in the specifications that do not model it
NotHeld == "not held"

----------------------------------------------------------------------------
(* Bounds of the model *)

MaxImageLen == 2
MaxEntries == 2
MaxCfgLen == 1
MaxHexLen == 2
MaxSigPad == 1
MaxCallers == 2
MaxFee == 2

----------------------------------------------------------------------------
(* Program constants, blobUtils.ts:14-16 *)

LOADER_INSTRUCTIONS_LENGTH == 48
BLOB_ID_LENGTH == 32
SECTION_LENGTH_SIZE == 8

----------------------------------------------------------------------------
(* Outcomes of a call: a returned value or a thrown Error *)

Return(v) == [kind |-> "return", value |-> v]
Throw(msg) == [kind |-> "throw", value |-> msg]
NoOutcome == [kind |-> "none", value |-> "none"]

Null == [null |-> TRUE]
IsNull(v) == DOMAIN v = {"null"}

----------------------------------------------------------------------------
(* JavaScript library primitives used by blobUtils.ts *)

Min2(a, b) == IF a <= b THEN a ELSE b
Max2(a, b) == IF a >= b THEN a ELSE b

\* The first offset instead of the least
MathMin_First(xs) == xs[1]

\* Math.min(...xs) for a non-empty list of numbers
RECURSIVE MathMin(_)
MathMin(xs) ==
  IF Len(xs) = 1 THEN xs[1] ELSE Min2(xs[1], MathMin(Tail(xs)))

\* The clamping of a relative index done by TypedArray.prototype.slice
ClampIndex(rel, len) ==
  IF rel < 0 THEN Max2(len + rel, 0) ELSE Min2(rel, len)

\* bytes.slice(start, end): a fresh copy of the elements [start, end)
Slice(bytes, start, end) ==
  LET k == ClampIndex(start, Len(bytes))
      final == ClampIndex(end, Len(bytes))
  IN  IF final <= k THEN <<>> ELSE SubSeq(bytes, k + 1, final)

\* bytes.slice(start): end defaults to the length
SliceFrom(bytes, start) == Slice(bytes, start, Len(bytes))

HexChars ==
  <<"0", "1", "2", "3", "4", "5", "6", "7",
    "8", "9", "a", "b", "c", "d", "e", "f">>

\* Array.prototype.join('') over a list of strings (strings are char sequences)
RECURSIVE Join(_)
Join(parts) ==
  IF Len(parts) = 0 THEN <<>> ELSE Head(parts) \o Join(Tail(parts))

\* Number.prototype.toString(16) of a non-negative integer: no leading zeros
RECURSIVE ToString16(_)
ToString16(n) ==
  IF n < 16 THEN <<HexChars[n + 1]>>
  ELSE ToString16(n \div 16) \o <<HexChars[(n % 16) + 1]>>

\* String.prototype.padStart(targetLength, '0')
RECURSIVE PadStart(_, _)
PadStart(s, targetLength) ==
  IF Len(s) >= targetLength THEN s ELSE PadStart(<<"0">> \o s, targetLength)

\* hexlify of the fuels SDK: "0x" and two lowercase hex digits per byte
Hexlify(bytes) ==
  <<"0", "x">> \o
  [k \in 1..(2 * Len(bytes)) |->
     LET b == bytes[(k + 1) \div 2]
     IN  IF k % 2 = 1 THEN HexChars[(b \div 16) + 1] ELSE HexChars[(b % 16) + 1]]

\* The 32-byte digest behind sha256 of the fuels SDK.  SHA-256 itself is an
\* external primitive; it is modelled by a deterministic function that is
\* collision-free on inputs of up to 31 bytes (length, then content, each byte
\* shifted by its position), which covers every input of the model.
Sha256Digest(data) ==
  LET padded == <<Len(data)>> \o data \o [i \in 1..(31 - Len(data)) |-> 0]
  IN  [i \in 1..32 |-> (padded[i] + 13 * i) % 256]

\* sha256(data) of the fuels SDK (blobUtils.ts:10): the digest as a hex string
sha256(data) == Hexlify(Sha256Digest(data))

----------------------------------------------------------------------------
(* blobUtils.ts *)

\* abi.configurables is absent (undefined) or an array of {name, offset}
HasConfigurables(abi) == abi.hasConfigurables

\* getConfigurablesSectionOffset testing only the length: undefined.length throws
getConfigurablesSectionOffset_LengthOnly(abi) ==
  IF ~HasConfigurables(abi)
  THEN Throw("TypeError: Cannot read properties of undefined (reading 'length')")
  ELSE IF Len(abi.configurables) = 0
  THEN Throw("No configurables found in ABI")
  ELSE Return(MathMin([i \in 1..Len(abi.configurables) |->
                          abi.configurables[i].offset]))

getConfigurablesSectionOffset(abi) ==
  IF ~HasConfigurables(abi) \/ Len(abi.configurables) = 0
  THEN Throw("No configurables found in ABI")
  ELSE Return(MathMin([i \in 1..Len(abi.configurables) |->
                          abi.configurables[i].offset]))

\* splitPredicateBytecode starting the configurables one byte late
splitPredicateBytecode_OffByOne(bytecode, abi) ==
  LET configurablesOffset == getConfigurablesSectionOffset(abi)
  IN  IF configurablesOffset.kind = "throw" THEN configurablesOffset
      ELSE Return([codeSection |-> Slice(bytecode, 0, configurablesOffset.value),
                   configurablesSection |->
                     SliceFrom(bytecode, configurablesOffset.value + 1)])

splitPredicateBytecode(bytecode, abi) ==
  LET configurablesOffset == getConfigurablesSectionOffset(abi)
  IN  IF configurablesOffset.kind = "throw" THEN configurablesOffset
      ELSE Return([codeSection |-> Slice(bytecode, 0, configurablesOffset.value),
                   configurablesSection |->
                     SliceFrom(bytecode, configurablesOffset.value)])

\* calculateBlobId returning the digits without the "0x" (hash.slice(2))
calculateBlobId_NoPrefix(bytecode, abi) ==
  LET split == splitPredicateBytecode(bytecode, abi)
  IN  IF split.kind = "throw" THEN split
      ELSE Return(Tail(Tail(sha256(split.value.codeSection))))

\* calculateBlobId hashing the whole image instead of the code section
calculateBlobId_WholeImage(bytecode, abi) ==
  LET split == splitPredicateBytecode(bytecode, abi)
  IN  IF split.kind = "throw" THEN split
      ELSE Return(sha256(bytecode))

\* calculateBlobId feeding one module-level hasher that is never reset: from the
\* second call on the earlier code section is still in it
calculateBlobId_SharedHasher(bytecode, abi) ==
  LET split == splitPredicateBytecode(bytecode, abi)
  IN  IF split.kind = "throw" THEN split
      ELSE IF firstBlobId.kind = "none" THEN Return(sha256(split.value.codeSection))
      ELSE Return(sha256(split.value.codeSection \o split.value.codeSection))

calculateBlobId(bytecode, abi) ==
  LET split == splitPredicateBytecode(bytecode, abi)
  IN  IF split.kind = "throw" THEN split
      ELSE Return(sha256(split.value.codeSection))

\* BigInt values (arbitrary precision): little-endian limbs in base 65536,
\* without leading zero limbs; 0n is the empty sequence.
RECURSIVE BigNormalize(_)
BigNormalize(a) ==
  IF Len(a) > 0 /\ a[Len(a)] = 0
  THEN BigNormalize(SubSeq(a, 1, Len(a) - 1))
  ELSE a

RECURSIVE BigAddCarry(_, _, _)
BigAddCarry(a, b, carry) ==
  IF Len(a) = 0 /\ Len(b) = 0
  THEN IF carry = 0 THEN <<>> ELSE <<carry>>
  ELSE LET x == IF Len(a) > 0 THEN a[1] ELSE 0
           y == IF Len(b) > 0 THEN b[1] ELSE 0
           s == x + y + carry
       IN  <<s % 65536>> \o
           BigAddCarry(IF Len(a) > 0 THEN Tail(a) ELSE <<>>,
                       IF Len(b) > 0 THEN Tail(b) ELSE <<>>,
                       s \div 65536)

\* a + b on BigInt
BigAdd(a, b) == BigNormalize(BigAddCarry(a, b, 0))

\* BigInt(byte) * (256n ** BigInt(e))
BigByteTimesPow256(byte, e) ==
  BigNormalize([i \in 1..(e \div 2) |-> 0] \o
               <<IF e % 2 = 1 THEN byte * 256 ELSE byte>>)

\* The reduction done with 32-bit integer arithmetic ((acc << 8) | byte): the
\* value wraps at 2^32
RECURSIVE ReduceSectionLength_Int32(_, _, _)
ReduceSectionLength_Int32(bytes, i, acc) ==
  IF i >= Len(bytes) THEN BigNormalize(SubSeq(acc, 1, IF Len(acc) < 2 THEN Len(acc) ELSE 2))
  ELSE ReduceSectionLength_Int32(bytes, i + 1,
                                 BigAdd(acc, BigByteTimesPow256(bytes[i + 1], 7 - i)))

\* sectionLengthBytes.reduce((acc, byte, i) => acc + BigInt(byte) * 256n ** BigInt(7 - i), 0n)
RECURSIVE ReduceSectionLength(_, _, _)
ReduceSectionLength(bytes, i, acc) ==
  IF i >= Len(bytes) THEN acc
  ELSE ReduceSectionLength(bytes, i + 1,
                           BigAdd(acc, BigByteTimesPow256(bytes[i + 1], 7 - i)))

\* parseLoaderStructure cutting the configurables at the decoded section length
parseLoaderStructure_BySectionLength(loader) ==
  LET minLength == LOADER_INSTRUCTIONS_LENGTH + BLOB_ID_LENGTH + SECTION_LENGTH_SIZE
      instructions == Slice(loader, 0, LOADER_INSTRUCTIONS_LENGTH)
      blobId == Slice(loader, 48, 48 + BLOB_ID_LENGTH)
      sectionLengthBytes == Slice(loader, 80, 80 + SECTION_LENGTH_SIZE)
      sectionLength == ReduceSectionLength(sectionLengthBytes, 0, <<>>)
      count == IF Len(sectionLength) = 0 THEN 0
               ELSE IF Len(sectionLength) = 1 THEN sectionLength[1]
               ELSE 65536
      configurables == Slice(loader, 88, 88 + count)
  IN  IF Len(loader) < minLength THEN Return(Null)
      ELSE Return([instructions |-> instructions,
                   blobId |-> blobId,
                   sectionLength |-> sectionLength,
                   configurables |-> configurables])

\* parseLoaderStructure that does not advance the offset past the instructions
parseLoaderStructure_NoAdvance(loader) ==
  LET minLength == LOADER_INSTRUCTIONS_LENGTH + BLOB_ID_LENGTH + SECTION_LENGTH_SIZE
      instructions == Slice(loader, 0, LOADER_INSTRUCTIONS_LENGTH)
      blobId == Slice(loader, 0, BLOB_ID_LENGTH)
      sectionLengthBytes == Slice(loader, 32, 32 + SECTION_LENGTH_SIZE)
      sectionLength == ReduceSectionLength(sectionLengthBytes, 0, <<>>)
      configurables == SliceFrom(loader, 40)
  IN  IF Len(loader) < minLength THEN Return(Null)
      ELSE Return([instructions |-> instructions,
                   blobId |-> blobId,
                   sectionLength |-> sectionLength,
                   configurables |-> configurables])

\* parseLoaderStructure with the 8 bytes of the section length left out of minLength
parseLoaderStructure_MinLength80(loader) ==
  LET minLength == LOADER_INSTRUCTIONS_LENGTH + BLOB_ID_LENGTH
      instructions == Slice(loader, 0, LOADER_INSTRUCTIONS_LENGTH)
      blobId == Slice(loader, 48, 48 + BLOB_ID_LENGTH)
      sectionLengthBytes == Slice(loader, 80, 80 + SECTION_LENGTH_SIZE)
      sectionLength == ReduceSectionLength(sectionLengthBytes, 0, <<>>)
      configurables == SliceFrom(loader, 88)
  IN  IF Len(loader) < minLength THEN Return(Null)
      ELSE Return([instructions |-> instructions,
                   blobId |-> blobId,
                   sectionLength |-> sectionLength,
                   configurables |-> configurables])

\* parseLoaderStructure taking the configurables from one byte after the header
parseLoaderStructure_SkipsByte(loader) ==
  LET minLength == LOADER_INSTRUCTIONS_LENGTH + BLOB_ID_LENGTH + SECTION_LENGTH_SIZE
      instructions == Slice(loader, 0, LOADER_INSTRUCTIONS_LENGTH)
      offset1 == LOADER_INSTRUCTIONS_LENGTH
      blobId == Slice(loader, offset1, offset1 + BLOB_ID_LENGTH)
      offset2 == offset1 + BLOB_ID_LENGTH
      sectionLengthBytes == Slice(loader, offset2, offset2 + SECTION_LENGTH_SIZE)
      offset3 == offset2 + SECTION_LENGTH_SIZE
      sectionLength == ReduceSectionLength(sectionLengthBytes, 0, <<>>)
      configurables == SliceFrom(loader, offset3 + 1)
  IN  IF Len(loader) < minLength THEN Return(Null)
      ELSE Return([instructions |-> instructions,
                   blobId |-> blobId,
                   sectionLength |-> sectionLength,
                   configurables |-> configurables])

\* parseLoaderStructure reading the blobId one byte late (bytes 49..80)
parseLoaderStructure_LateBlobId(loader) ==
  LET minLength == LOADER_INSTRUCTIONS_LENGTH + BLOB_ID_LENGTH + SECTION_LENGTH_SIZE
      instructions == Slice(loader, 0, LOADER_INSTRUCTIONS_LENGTH)
      offset1 == LOADER_INSTRUCTIONS_LENGTH + 1
      blobId == Slice(loader, offset1, offset1 + BLOB_ID_LENGTH)
      offset2 == LOADER_INSTRUCTIONS_LENGTH + BLOB_ID_LENGTH
      sectionLengthBytes == Slice(loader, offset2, offset2 + SECTION_LENGTH_SIZE)
      offset3 == offset2 + SECTION_LENGTH_SIZE
      sectionLength == ReduceSectionLength(sectionLengthBytes, 0, <<>>)
      configurables == SliceFrom(loader, offset3)
  IN  IF Len(loader) < minLength THEN Return(Null)
      ELSE Return([instructions |-> instructions,
                   blobId |-> blobId,
                   sectionLength |-> sectionLength,
                   configurables |-> configurables])

parseLoaderStructure(loader) ==
  LET minLength == LOADER_INSTRUCTIONS_LENGTH + BLOB_ID_LENGTH + SECTION_LENGTH_SIZE
      offset0 == 0
      instructions == Slice(loader, offset0, offset0 + LOADER_INSTRUCTIONS_LENGTH)
      offset1 == offset0 + LOADER_INSTRUCTIONS_LENGTH
      blobId == Slice(loader, offset1, offset1 + BLOB_ID_LENGTH)
      offset2 == offset1 + BLOB_ID_LENGTH
      sectionLengthBytes == Slice(loader, offset2, offset2 + SECTION_LENGTH_SIZE)
      offset3 == offset2 + SECTION_LENGTH_SIZE
      sectionLength == ReduceSectionLength(sectionLengthBytes, 0, <<>>)
      configurables == SliceFrom(loader, offset3)
  IN  IF Len(loader) < minLength THEN Return(Null)
      ELSE Return([instructions |-> instructions,
                   blobId |-> blobId,
                   sectionLength |-> sectionLength,
                   configurables |-> configurables])

\* verifyLoaderBlobId without the check for null: reading blobId of null throws
verifyLoaderBlobId_NoNullCheck(bytecode, abi, loader) ==
  LET expectedBlobId == calculateBlobId(bytecode, abi)
      loaderComponents == parseLoaderStructure(loader)
      embeddedBlobId ==
        <<"0", "x">> \o
        Join([i \in 1..Len(loaderComponents.value.blobId) |->
                PadStart(ToString16(loaderComponents.value.blobId[i]), 2)])
  IN  IF expectedBlobId.kind = "throw" THEN expectedBlobId
      ELSE IF IsNull(loaderComponents.value)
      THEN Throw("TypeError: Cannot read properties of null (reading 'blobId')")
      ELSE Return(embeddedBlobId = expectedBlobId.value)

\* verifyLoaderBlobId without the padStart(2, '0') of each byte
verifyLoaderBlobId_NoPad(bytecode, abi, loader) ==
  LET expectedBlobId == calculateBlobId(bytecode, abi)
      loaderComponents == parseLoaderStructure(loader)
      embeddedBlobId ==
        <<"0", "x">> \o
        Join([i \in 1..Len(loaderComponents.value.blobId) |->
                ToString16(loaderComponents.value.blobId[i])])
  IN  IF expectedBlobId.kind = "throw" THEN expectedBlobId
      ELSE IF IsNull(loaderComponents.value) THEN Return(FALSE)
      ELSE Return(embeddedBlobId = expectedBlobId.value)

\* verifyLoaderBlobId comparing only the first 31 bytes of the two ids
verifyLoaderBlobId_PrefixCompare(bytecode, abi, loader) ==
  LET expectedBlobId == calculateBlobId(bytecode, abi)
      loaderComponents == parseLoaderStructure(loader)
      embeddedBlobId ==
        <<"0", "x">> \o
        Join([i \in 1..Len(loaderComponents.value.blobId) |->
                PadStart(ToString16(loaderComponents.value.blobId[i]), 2)])
  IN  IF expectedBlobId.kind = "throw" THEN expectedBlobId
      ELSE IF IsNull(loaderComponents.value) THEN Return(FALSE)
      ELSE Return(SubSeq(embeddedBlobId, 1, 64) = SubSeq(expectedBlobId.value, 1, 64))

\* verifyLoaderBlobId encoding the embedded blobId without the '0x' prefix
verifyLoaderBlobId_NoPrefix(bytecode, abi, loader) ==
  LET expectedBlobId == calculateBlobId(bytecode, abi)
      loaderComponents == parseLoaderStructure(loader)
      embeddedBlobId ==
        Join([i \in 1..Len(loaderComponents.value.blobId) |->
                PadStart(ToString16(loaderComponents.value.blobId[i]), 2)])
  IN  IF expectedBlobId.kind = "throw" THEN expectedBlobId
      ELSE IF IsNull(loaderComponents.value) THEN Return(FALSE)
      ELSE Return(embeddedBlobId = expectedBlobId.value)

\* verifyLoaderBlobId rejecting a loader whose sectionLength is not the number of
\* its configurables bytes
verifyLoaderBlobId_ChecksSectionLength(bytecode, abi, loader) ==
  LET expectedBlobId == calculateBlobId(bytecode, abi)
      loaderComponents == parseLoaderStructure(loader)
      trailing == Len(loaderComponents.value.configurables)
      embeddedBlobId ==
        <<"0", "x">> \o
        Join([i \in 1..Len(loaderComponents.value.blobId) |->
                PadStart(ToString16(loaderComponents.value.blobId[i]), 2)])
  IN  IF expectedBlobId.kind = "throw" THEN expectedBlobId
      ELSE IF IsNull(loaderComponents.value) THEN Return(FALSE)
      ELSE IF loaderComponents.value.sectionLength
                # BigNormalize(<<trailing % 65536, trailing \div 65536>>)
      THEN Return(FALSE)
      ELSE Return(embeddedBlobId = expectedBlobId.value)

\* verifyLoaderBlobId parsing the loader before it computes the expected BlobId
verifyLoaderBlobId_ParseFirst(bytecode, abi, loader) ==
  LET loaderComponents == parseLoaderStructure(loader)
      expectedBlobId == calculateBlobId(bytecode, abi)
      embeddedBlobId ==
        <<"0", "x">> \o
        Join([i \in 1..Len(loaderComponents.value.blobId) |->
                PadStart(ToString16(loaderComponents.value.blobId[i]), 2)])
  IN  IF IsNull(loaderComponents.value) THEN Return(FALSE)
      ELSE IF expectedBlobId.kind = "throw" THEN expectedBlobId
      ELSE Return(embeddedBlobId = expectedBlobId.value)

\* The hex encoding written out in verifyLoaderBlobId (blobUtils.ts:130-133)
EmbeddedBlobIdHex(blobId) ==
  <<"0", "x">> \o
  Join([i \in 1..Len(blobId) |-> PadStart(ToString16(blobId[i]), 2)])

verifyLoaderBlobId(bytecode, abi, loader) ==
  LET expectedBlobId == calculateBlobId(bytecode, abi)
      loaderComponents == parseLoaderStructure(loader)
      embeddedBlobId == EmbeddedBlobIdHex(loaderComponents.value.blobId)
  IN  IF expectedBlobId.kind = "throw" THEN expectedBlobId
      ELSE IF IsNull(loaderComponents.value) THEN Return(FALSE)
      ELSE Return(embeddedBlobId = expectedBlobId.value)

\* bytesToHex without the padStart(2, '0') of each byte
bytesToHex_NoPad(bytes) ==
  <<"0", "x">> \o Join([i \in 1..Len(bytes) |-> ToString16(bytes[i])])

bytesToHex(bytes) ==
  <<"0", "x">> \o Join([i \in 1..Len(bytes) |-> PadStart(ToString16(bytes[i]), 2)])

\* String.prototype.startsWith('0x')
StartsWith0x(str) == Len(str) >= 2 /\ str[1] = "0" /\ str[2] = "x"

\* String.prototype.slice(start, end) on the characters of a string
StringSlice(str, start, end) ==
  LET k == ClampIndex(start, Len(str))
      final == ClampIndex(end, Len(str))
  IN  IF final <= k THEN <<>> ELSE SubSeq(str, k + 1, final)

UpperHexChars ==
  <<"0", "1", "2", "3", "4", "5", "6", "7",
    "8", "9", "A", "B", "C", "D", "E", "F">>

\* The value of a character as a digit of radix 16, or -1 if it is none
HexDigitValue(c) ==
  IF \E d \in 1..16 : HexChars[d] = c
  THEN (CHOOSE d \in 1..16 : HexChars[d] = c) - 1
  ELSE IF \E d \in 1..16 : UpperHexChars[d] = c
  THEN (CHOOSE d \in 1..16 : UpperHexChars[d] = c) - 1
  ELSE -1

\* The results of parseInt: a number, or NaN
Number(n) == [nan |-> FALSE, value |-> n]
NaN == [nan |-> TRUE, value |-> 0]

\* parseInt(str, 16) of a string of at most two characters out of digits and
\* letters: the value of its longest prefix of hex digits, NaN if that is empty
ParseInt16(str) ==
  IF Len(str) = 0 \/ HexDigitValue(str[1]) < 0 THEN NaN
  ELSE IF Len(str) = 1 \/ HexDigitValue(str[2]) < 0 THEN Number(HexDigitValue(str[1]))
  ELSE Number(16 * HexDigitValue(str[1]) + HexDigitValue(str[2]))

\* The element stored in a Uint8Array by an assignment of v: NaN is stored as 0
ToUint8(v) == IF v.nan THEN 0 ELSE v.value % 256

\* hexToBytes without the removal of the '0x' prefix
hexToBytes_KeepPrefix(hex) ==
  LET cleanHex == hex
      length == Len(cleanHex) \div 2
  IN  [k \in 1..length |->
         ToUint8(ParseInt16(StringSlice(cleanHex, 2 * (k - 1), 2 * (k - 1) + 2)))]

\* new Uint8Array(cleanHex.length / 2) truncates the length; the loop assigns
\* bytes[i / 2] for i = 0, 2, .. below cleanHex.length, and an assignment past
\* the end of the array stores nothing
hexToBytes(hex) ==
  LET cleanHex == IF StartsWith0x(hex) THEN StringSlice(hex, 2, Len(hex)) ELSE hex
      length == Len(cleanHex) \div 2
  IN  [k \in 1..length |->
         ToUint8(ParseInt16(StringSlice(cleanHex, 2 * (k - 1), 2 * (k - 1) + 2)))]

----------------------------------------------------------------------------
(* The signature normalizer (signatureUtils.toCompactSignature), on the bytes
   of the signature: r is bytes 0..31, s is bytes 32..63, v is byte 64 *)

RECOVERABLE_SIGNATURE_LENGTH == 65
COMPACT_SIGNATURE_LENGTH == 64

\* The parity taken as v mod 2, without subtracting 27 first
NormalizeParity_NoSubtract(v) == v % 2

\* The parity bit of a recovery byte in either the {27,28} or the {0,1} convention
NormalizeParity(v) == (IF v >= 27 THEN v - 27 ELSE v) % 2

\* toCompactSignature that only ever sets the top bit of s (s[0] |= parity << 7)
toCompactSignature_OrBit(signature) ==
  LET r == Slice(signature, 0, 32)
      s == Slice(signature, 32, 64)
      parity == NormalizeParity(signature[RECOVERABLE_SIGNATURE_LENGTH])
      sPrime == [s EXCEPT ![1] = IF parity = 1 THEN (s[1] % 128) + 128 ELSE s[1]]
  IN  IF Len(signature) # RECOVERABLE_SIGNATURE_LENGTH THEN Throw("MalformedSignature")
      ELSE Return(r \o sPrime)

\* toCompactSignature that overwrites the first byte of s with the parity bit
toCompactSignature_DropLowBits(signature) ==
  LET r == Slice(signature, 0, 32)
      s == Slice(signature, 32, 64)
      parity == NormalizeParity(signature[RECOVERABLE_SIGNATURE_LENGTH])
      sPrime == [s EXCEPT ![1] = 128 * parity]
  IN  IF Len(signature) # RECOVERABLE_SIGNATURE_LENGTH THEN Throw("MalformedSignature")
      ELSE Return(r \o sPrime)

\* toCompactSignature that rejects only the inputs shorter than 65 bytes
toCompactSignature_AtLeast65(signature) ==
  LET r == Slice(signature, 0, 32)
      s == Slice(signature, 32, 64)
      parity == NormalizeParity(signature[RECOVERABLE_SIGNATURE_LENGTH])
      sPrime == [s EXCEPT ![1] = (s[1] % 128) + 128 * parity]
  IN  IF Len(signature) < RECOVERABLE_SIGNATURE_LENGTH THEN Throw("MalformedSignature")
      ELSE Return(r \o sPrime)

toCompactSignature(signature) ==
  LET r == Slice(signature, 0, 32)
      s == Slice(signature, 32, 64)
      parity == NormalizeParity(signature[RECOVERABLE_SIGNATURE_LENGTH])
      sPrime == [s EXCEPT ![1] = (s[1] % 128) + 128 * parity]
  IN  IF Len(signature) # RECOVERABLE_SIGNATURE_LENGTH THEN Throw("MalformedSignature")
      ELSE Return(r \o sPrime)

----------------------------------------------------------------------------
(* The inputs a caller can hold *)

\* Byte values used in predicate images: one that needs zero padding in hex
\* (0x07) and one whose hex digits are letters (0xab)
ImageBytes == {7, 171}

RECURSIVE SeqsUpTo(_, _)
SeqsUpTo(S, n) ==
  IF n = 0 THEN {<<>>}
  ELSE LET shorter == SeqsUpTo(S, n - 1)
       IN  shorter \cup {Append(s, x) : s \in {t \in shorter : Len(t) = n - 1}, x \in S}

Images == SeqsUpTo(ImageBytes, MaxImageLen)

\* Offsets of configurables: inside the image, at its end, and past its end
Offsets == 0..(MaxImageLen + 1)

Entries == {[name |-> "C", offset |-> o] : o \in Offsets}

\* ABI objects: without a configurables property, or with an array of entries
Abis ==
  {[hasConfigurables |-> FALSE, configurables |-> <<>>]} \cup
  {[hasConfigurables |-> TRUE, configurables |-> cs] : cs \in SeqsUpTo(Entries, MaxEntries)}

\* The loader images are assembled as the tests assemble them
\* (blobUtils.test.ts:118-123): instructions, blobId, section length, configurables
BuildLoader(instructions, blobId, sectionLengthBytes, configurables) ==
  instructions \o blobId \o sectionLengthBytes \o configurables

BootstrapInstructions == [i \in 1..LOADER_INSTRUCTIONS_LENGTH |-> (26 + 5 * i) % 256]

FakeBlobId == [i \in 1..BLOB_ID_LENGTH |-> 255]

\* A digest with its last byte changed
TamperLast(id) == [id EXCEPT ![BLOB_ID_LENGTH] = (id[BLOB_ID_LENGTH] + 1) % 256]

\* The blobIds a loader for `bytecode` may embed: the digest of any prefix of the
\* image (the code section for some offset), a tampered digest, the fake 0xFF.. id
EmbeddedIds(bytecode) ==
  {Sha256Digest(SubSeq(bytecode, 1, k)) : k \in 0..Len(bytecode)} \cup
  {TamperLast(Sha256Digest(bytecode)), FakeBlobId}

\* The configurables a loader carries: none, or up to MaxCfgLen bytes
LoaderConfigurables == {[i \in 1..n |-> 200 + i] : n \in 0..MaxCfgLen}

\* n as 8 big-endian bytes (n < 256 here)
BigEndian8(n) == [i \in 1..SECTION_LENGTH_SIZE |-> IF i = SECTION_LENGTH_SIZE THEN n ELSE 0]

\* A loader whose section-length field states the length of its configurables
WellFormedLoader(blobId, configurables) ==
  BuildLoader(BootstrapInstructions, blobId, BigEndian8(Len(configurables)), configurables)

LongestConfigurables == [i \in 1..MaxCfgLen |-> 200 + i]

\* Lengths a loader image is cut to: empty, the tests' 10 bytes, one byte short
LoaderCuts == {0, 10, 87}

\* The loader images a caller may hold for `bytecode`:
\*  - a well-formed loader for every embedded id, whole and cut one byte short;
\*  - for the digest of the whole image, every configurables length, with a
\*    section-length field of zero (as the tests' fake loader) or of 2^64-1;
\*  - the same loader cut to each of LoaderCuts.
LoaderImages(bytecode) ==
  LET wellFormed == {WellFormedLoader(id, LongestConfigurables) : id \in EmbeddedIds(bytecode)}
      odd == UNION {{BuildLoader(BootstrapInstructions, Sha256Digest(bytecode), sl, cfg) :
                       sl \in {BigEndian8(Len(cfg)),
                               [i \in 1..SECTION_LENGTH_SIZE |-> 0],
                               [i \in 1..SECTION_LENGTH_SIZE |-> 255]}} :
                    cfg \in LoaderConfigurables}
  IN  wellFormed \cup odd
      \cup {SubSeq(l, 1, 87) : l \in wellFormed}
      \cup {SubSeq(WellFormedLoader(Sha256Digest(bytecode), <<>>), 1, n) : n \in LoaderCuts}

----------------------------------------------------------------------------
(* The state machine *)

\* The loaders held together with an ABI of several entries: a well-formed loader
\* for the whole image, the fake one, and one too short to be a loader
CoreLoaderImages(bytecode) ==
  {WellFormedLoader(Sha256Digest(bytecode), LongestConfigurables),
   WellFormedLoader(FakeBlobId, LongestConfigurables),
   SubSeq(WellFormedLoader(Sha256Digest(bytecode), <<>>), 1, 87)}

\* The workspace is drawn from the images, the ABIs and the loader images; every
\* loader image is paired with the ABIs of at most one entry, every ABI with the
\* core loader images.
Init ==
  /\ fullBytecode \in Images
  /\ fullAbi \in Abis
  /\ loaderBytecode \in LoaderImages(fullBytecode)
  /\ \/ Len(fullAbi.configurables) <= 1
     \/ loaderBytecode \in CoreLoaderImages(fullBytecode)
  /\ call = [op |-> "none", outcome |-> NoOutcome]
  /\ firstBlobId = NoOutcome
  /\ recalculated = FALSE
  /\ utilArg = <<>>
  /\ heap = NotHeld
  /\ callers = NotHeld
  /\ gas = NotHeld
  /\ deploy = NotHeld

\* None of the functions assigns to its arguments: slice copies (blobUtils.ts:50-51,
\* 84-102), Math.min and map read (blobUtils.ts:34-35)
InputsUnchanged ==
  UNCHANGED <<fullBytecode, fullAbi, loaderBytecode, utilArg, heap, callers, gas, deploy>>

GetConfigurablesSectionOffset ==
  /\ call' = [op |-> "getConfigurablesSectionOffset",
              outcome |-> getConfigurablesSectionOffset(fullAbi)]
  /\ InputsUnchanged
  /\ UNCHANGED <<firstBlobId, recalculated>>

SplitPredicateBytecode ==
  /\ call' = [op |-> "splitPredicateBytecode",
              outcome |-> splitPredicateBytecode(fullBytecode, fullAbi)]
  /\ InputsUnchanged
  /\ UNCHANGED <<firstBlobId, recalculated>>

CalculateBlobId ==
  /\ call' = [op |-> "calculateBlobId",
              outcome |-> calculateBlobId(fullBytecode, fullAbi)]
  /\ firstBlobId' = IF firstBlobId.kind = "none" THEN call'.outcome ELSE firstBlobId
  /\ recalculated' = (firstBlobId.kind # "none")
  /\ InputsUnchanged

ParseLoaderStructure ==
  /\ call' = [op |-> "parseLoaderStructure",
              outcome |-> parseLoaderStructure(loaderBytecode)]
  /\ InputsUnchanged
  /\ UNCHANGED <<firstBlobId, recalculated>>

VerifyLoaderBlobId ==
  /\ call' = [op |-> "verifyLoaderBlobId",
              outcome |-> verifyLoaderBlobId(fullBytecode, fullAbi, loaderBytecode)]
  /\ InputsUnchanged
  /\ UNCHANGED <<firstBlobId, recalculated>>

Next ==
  \/ GetConfigurablesSectionOffset
  \/ SplitPredicateBytecode
  \/ CalculateBlobId
  \/ ParseLoaderStructure
  \/ VerifyLoaderBlobId

Spec == Init /\ [][Next]_vars

----------------------------------------------------------------------------
(* The hex utilities on their own: the caller holds one byte array *)

\* Byte values at the edges of the two hex digits
HexSampleBytes == {0, 1, 15, 16, 159, 171, 255}

\* The bytes of the tests' conversion example (blobUtils.test.ts:137)
HexFixtureBytes == <<1, 35, 69, 103, 137, 171, 205, 239>>

\* The byte arrays given to bytesToHex: the empty one, every single byte, the
\* sequences of sample bytes up to MaxHexLen, and the tests' example
HexInputs ==
  {<<b>> : b \in 0..255} \cup SeqsUpTo(HexSampleBytes, MaxHexLen) \cup {HexFixtureBytes}

\* No blob workspace is held while the utilities are exercised
NoWorkspace ==
  /\ fullBytecode = <<>>
  /\ fullAbi = [hasConfigurables |-> FALSE, configurables |-> <<>>]
  /\ loaderBytecode = <<>>
  /\ call = [op |-> "none", outcome |-> NoOutcome]
  /\ firstBlobId = NoOutcome
  /\ recalculated = FALSE

InitHex ==
  /\ NoWorkspace
  /\ heap = NotHeld
  /\ callers = NotHeld
  /\ gas = NotHeld
  /\ deploy = NotHeld
  /\ utilArg \in HexInputs

BytesToHex ==
  /\ call' = [op |-> "bytesToHex", outcome |-> Return(bytesToHex(utilArg))]
  /\ InputsUnchanged
  /\ UNCHANGED <<firstBlobId, recalculated>>

\* toUpperCase of a string of hex digits
UpperCaseHex(str) ==
  [k \in 1..Len(str) |->
     IF k > 2 /\ HexDigitValue(str[k]) >= 0 THEN UpperHexChars[HexDigitValue(str[k]) + 1]
     ELSE str[k]]

\* The strings given to hexToBytes for the held bytes: their hex string, the
\* same without its prefix, in upper case, and with its last digit cut off
HexStringsOf(bytes) ==
  LET hex == bytesToHex(bytes)
  IN  {hex, StringSlice(hex, 2, Len(hex)), UpperCaseHex(hex),
       StringSlice(hex, 0, Len(hex) - 1)}

HexToBytes ==
  /\ \E hex \in HexStringsOf(utilArg) :
       call' = [op |-> "hexToBytes", outcome |-> Return(hexToBytes(hex)), hex |-> hex]
  /\ InputsUnchanged
  /\ UNCHANGED <<firstBlobId, recalculated>>

NextHex ==
  \/ BytesToHex
  \/ HexToBytes

SpecHex == InitHex /\ [][NextHex]_vars

----------------------------------------------------------------------------
(* The signature normalizer on its own: the caller holds one signature *)

\* The signature and the compact signature logged by a run of the tests
RecordedSignature ==
  <<75, 145, 39, 220, 142, 189, 237, 176, 129, 168, 149, 79, 162, 48, 65, 65,
    198, 46, 48, 14, 178, 243, 124, 164, 79, 100, 224, 76, 56, 219, 150, 184,
    119, 34, 70, 185, 109, 188, 22, 91, 198, 31, 44, 155, 38, 127, 240, 158,
    144, 100, 211, 159, 247, 227, 232, 105, 110, 34, 64, 2, 2, 184, 215, 236,
    28>>

RecordedCompact ==
  <<75, 145, 39, 220, 142, 189, 237, 176, 129, 168, 149, 79, 162, 48, 65, 65,
    198, 46, 48, 14, 178, 243, 124, 164, 79, 100, 224, 76, 56, 219, 150, 184,
    247, 34, 70, 185, 109, 188, 22, 91, 198, 31, 44, 155, 38, 127, 240, 158,
    144, 100, 211, 159, 247, 227, 232, 105, 110, 34, 64, 2, 2, 184, 215, 236>>

\* r values: the recorded one, all zero bits, all one bits
SignatureRs ==
  {SubSeq(RecordedSignature, 1, 32), [i \in 1..32 |-> 0], [i \in 1..32 |-> 255]}

\* s values: the recorded one with its first byte at the edges of the top bit
SignatureSs ==
  {[SubSeq(RecordedSignature, 33, 64) EXCEPT ![1] = b] : b \in {0, 119, 127, 128, 255}}

\* Recovery bytes: both conventions, their neighbours and the largest byte
RecoveryBytes == {0, 1, 2, 26, 27, 28, 29, 255}

WellFormedSignatures ==
  {r \o s \o <<v>> : r \in SignatureRs, s \in SignatureSs, v \in RecoveryBytes}

\* Signatures of another length: empty, or the recorded signature cut short or
\* extended with recovery bytes by up to MaxSigPad bytes
MalformedSignatures ==
  {<<>>}
  \cup {SubSeq(RecordedSignature, 1, RECOVERABLE_SIGNATURE_LENGTH - k) : k \in 1..MaxSigPad}
  \cup {RecordedSignature \o [i \in 1..k |-> v] : k \in 1..MaxSigPad, v \in {0, 27, 28}}

InitSig ==
  /\ NoWorkspace
  /\ heap = NotHeld
  /\ callers = NotHeld
  /\ gas = NotHeld
  /\ deploy = NotHeld
  /\ utilArg \in WellFormedSignatures \cup MalformedSignatures

ToCompactSignature ==
  /\ call' = [op |-> "toCompactSignature", outcome |-> toCompactSignature(utilArg)]
  /\ InputsUnchanged
  /\ UNCHANGED <<firstBlobId, recalculated>>

NextSig ==
  \/ ToCompactSignature

SpecSig == InitSig /\ [][NextSig]_vars

----------------------------------------------------------------------------
(* The calls with their typed arrays in memory.  A Uint8Array is a view of
   `length` bytes at `byteOffset` of a buffer; mem is the sequence of the
   buffers, a buffer being named by its position in mem. *)

TypedArray(buffer, byteOffset, length) ==
  [buffer |-> buffer, byteOffset |-> byteOffset, length |-> length]

\* The bytes read through a typed array
BytesOf(mem, array) ==
  [i \in 1..array.length |-> mem[array.buffer][array.byteOffset + i]]

\* new Uint8Array(..): a view of the whole of a new buffer
Allocate(mem, bytes) ==
  [mem |-> Append(mem, bytes), array |-> TypedArray(Len(mem) + 1, 0, Len(bytes))]

\* subarray(start, end) in the place of slice: a view of the same buffer
TypedArraySlice_Subarray(mem, array, start, end) ==
  LET k == ClampIndex(start, array.length)
      final == ClampIndex(end, array.length)
      count == Max2(final - k, 0)
  IN  [mem |-> mem, array |-> TypedArray(array.buffer, array.byteOffset + k, count)]

\* array.slice(start, end): the elements [start, end) copied to a new buffer
TypedArraySlice(mem, array, start, end) ==
  LET k == ClampIndex(start, array.length)
      final == ClampIndex(end, array.length)
      count == Max2(final - k, 0)
  IN  Allocate(mem, [i \in 1..count |-> mem[array.buffer][array.byteOffset + k + i]])

\* The functions on typed arrays give the memory after the call, the outcome,
\* and the typed arrays that the returned value holds.
splitPredicateBytecodeInMemory(mem, bytecode, abi) ==
  LET configurablesOffset == getConfigurablesSectionOffset(abi)
      codeSection == TypedArraySlice(mem, bytecode, 0, configurablesOffset.value)
      configurablesSection ==
        TypedArraySlice(codeSection.mem, bytecode, configurablesOffset.value, bytecode.length)
      after == configurablesSection.mem
  IN  IF configurablesOffset.kind = "throw"
      THEN [mem |-> mem, outcome |-> configurablesOffset, arrays |-> <<>>]
      ELSE [mem |-> after,
            outcome |-> Return([codeSection |-> BytesOf(after, codeSection.array),
                                configurablesSection |->
                                  BytesOf(after, configurablesSection.array)]),
            arrays |-> <<codeSection.array, configurablesSection.array>>]

calculateBlobIdInMemory(mem, bytecode, abi) ==
  LET split == splitPredicateBytecodeInMemory(mem, bytecode, abi)
  IN  IF split.outcome.kind = "throw" THEN split
      ELSE [mem |-> split.mem,
            outcome |-> Return(sha256(split.outcome.value.codeSection)),
            arrays |-> <<>>]

parseLoaderStructureInMemory(mem, loader) ==
  LET minLength == LOADER_INSTRUCTIONS_LENGTH + BLOB_ID_LENGTH + SECTION_LENGTH_SIZE
      offset1 == LOADER_INSTRUCTIONS_LENGTH
      instructions == TypedArraySlice(mem, loader, 0, offset1)
      offset2 == offset1 + BLOB_ID_LENGTH
      blobId == TypedArraySlice(instructions.mem, loader, offset1, offset2)
      offset3 == offset2 + SECTION_LENGTH_SIZE
      sectionLengthBytes == TypedArraySlice(blobId.mem, loader, offset2, offset3)
      configurables == TypedArraySlice(sectionLengthBytes.mem, loader, offset3, loader.length)
      after == configurables.mem
  IN  IF loader.length < minLength
      THEN [mem |-> mem, outcome |-> Return(Null), arrays |-> <<>>]
      ELSE [mem |-> after,
            outcome |->
              Return([instructions |-> BytesOf(after, instructions.array),
                      blobId |-> BytesOf(after, blobId.array),
                      sectionLength |->
                        ReduceSectionLength(BytesOf(after, sectionLengthBytes.array), 0, <<>>),
                      configurables |-> BytesOf(after, configurables.array)]),
            arrays |-> <<instructions.array, blobId.array, configurables.array>>]

verifyLoaderBlobIdInMemory(mem, bytecode, abi, loader) ==
  LET expectedBlobId == calculateBlobIdInMemory(mem, bytecode, abi)
      loaderComponents == parseLoaderStructureInMemory(expectedBlobId.mem, loader)
  IN  IF expectedBlobId.outcome.kind = "throw" THEN expectedBlobId
      ELSE IF IsNull(loaderComponents.outcome.value)
      THEN [mem |-> loaderComponents.mem, outcome |-> Return(FALSE), arrays |-> <<>>]
      ELSE [mem |-> loaderComponents.mem,
            outcome |-> Return(bytesToHex(loaderComponents.outcome.value.blobId)
                                 = expectedBlobId.outcome.value),
            arrays |-> <<>>]

\* Array.from(bytes) reads the elements; the string is a new value
bytesToHexInMemory(mem, bytes) ==
  [mem |-> mem, outcome |-> Return(bytesToHex(BytesOf(mem, bytes))), arrays |-> <<>>]

hexToBytesInMemory(mem, hex) ==
  LET bytes == Allocate(mem, hexToBytes(hex))
  IN  [mem |-> bytes.mem, outcome |-> Return(BytesOf(bytes.mem, bytes.array)),
       arrays |-> <<bytes.array>>]

\* The bytes given to bytesToHex in memory
MemoryUtilArgs == {<<>>, <<1, 35>>}

\* The caller holds the image, the loader and the utility argument in the
\* buffers 1, 2 and 3; no call has returned
InitMem ==
  /\ fullBytecode \in Images
  /\ fullAbi \in {abi \in Abis : Len(abi.configurables) <= 1}
  /\ loaderBytecode \in CoreLoaderImages(fullBytecode)
  /\ utilArg \in MemoryUtilArgs
  /\ call = [op |-> "none", outcome |-> NoOutcome]
  /\ firstBlobId = NoOutcome
  /\ recalculated = FALSE
  /\ heap = [mem |-> <<fullBytecode, loaderBytecode, utilArg>>,
             image |-> TypedArray(1, 0, Len(fullBytecode)),
             loader |-> TypedArray(2, 0, Len(loaderBytecode)),
             arg |-> TypedArray(3, 0, Len(utilArg)),
             arrays |-> <<>>,
             atReturn |-> <<>>,
             written |-> 0]
  /\ callers = NotHeld
  /\ gas = NotHeld
  /\ deploy = NotHeld

\* The caller keeps its three arrays and drops the result of the call before
InputBuffers == SubSeq(heap.mem, 1, 3)

\* A call has returned: the caller holds the returned arrays; atReturn records
\* the bytes they held at the return
AfterCall(op, result) ==
  /\ call' = [op |-> op, outcome |-> result.outcome]
  /\ heap' = [heap EXCEPT
                !.mem = IF result.arrays = <<>> THEN SubSeq(result.mem, 1, 3) ELSE result.mem,
                !.arrays = result.arrays,
                !.atReturn = [s \in 1..Len(result.arrays) |->
                                BytesOf(result.mem, result.arrays[s])],
                !.written = 0]
  /\ UNCHANGED <<fullBytecode, fullAbi, loaderBytecode, utilArg, firstBlobId, recalculated,
                 callers, gas, deploy>>

SplitInMemory ==
  AfterCall("splitPredicateBytecode",
            splitPredicateBytecodeInMemory(InputBuffers, heap.image, fullAbi))

CalculateInMemory ==
  AfterCall("calculateBlobId", calculateBlobIdInMemory(InputBuffers, heap.image, fullAbi))

ParseInMemory ==
  AfterCall("parseLoaderStructure", parseLoaderStructureInMemory(InputBuffers, heap.loader))

VerifyInMemory ==
  AfterCall("verifyLoaderBlobId",
            verifyLoaderBlobIdInMemory(InputBuffers, heap.image, fullAbi, heap.loader))

BytesToHexInMemory ==
  AfterCall("bytesToHex", bytesToHexInMemory(InputBuffers, heap.arg))

HexToBytesInMemory ==
  AfterCall("hexToBytes", hexToBytesInMemory(InputBuffers, bytesToHex(utilArg)))

\* The caller changes one byte, the first or the last, of a returned array
WriteReturnedArray ==
  /\ heap.written = 0
  /\ \E s \in 1..Len(heap.arrays) :
       /\ heap.arrays[s].length > 0
       /\ \E i \in {1, heap.arrays[s].length} :
            LET array == heap.arrays[s]
                at == array.byteOffset + i
            IN  heap' = [heap EXCEPT !.mem[array.buffer][at] = 255 - @,
                                     !.written = s]
  /\ UNCHANGED <<fullBytecode, fullAbi, loaderBytecode, utilArg, call,
                 firstBlobId, recalculated, callers, gas, deploy>>

NextMem ==
  \/ SplitInMemory
  \/ CalculateInMemory
  \/ ParseInMemory
  \/ VerifyInMemory
  \/ BytesToHexInMemory
  \/ HexToBytesInMemory
  \/ WriteReturnedArray

SpecMem == InitMem /\ [][NextMem]_vars

----------------------------------------------------------------------------
(* Several callers.  Each call runs statement by statement, and the statements
   of different calls are taken in any order.  A call keeps its const
   declarations (blobUtils.ts:49, 64, 121, 124) in a frame of its own. *)

Callers == 1..MaxCallers

\* What the callers hold: a loader that verifies, one embedding the tests' fake
\* id, and an ABI without configurables with a loader too short to parse
ConcurrentWorkspaces ==
  << [image |-> <<7, 171>>,
      abi |-> [hasConfigurables |-> TRUE,
               configurables |-> <<[name |-> "C", offset |-> 1]>>],
      loader |-> WellFormedLoader(Sha256Digest(<<7>>), LongestConfigurables),
      signature |-> RecordedSignature],
     [image |-> <<171, 7>>,
      abi |-> [hasConfigurables |-> TRUE,
               configurables |-> <<[name |-> "C", offset |-> 2]>>],
      loader |-> WellFormedLoader(FakeBlobId, LongestConfigurables),
      signature |-> [RecordedSignature EXCEPT ![RECOVERABLE_SIGNATURE_LENGTH] = 27]],
     [image |-> <<7>>,
      abi |-> [hasConfigurables |-> FALSE, configurables |-> <<>>],
      loader |-> SubSeq(WellFormedLoader(FakeBlobId, <<>>), 1, 10),
      signature |-> SubSeq(RecordedSignature, 1, COMPACT_SIGNATURE_LENGTH)] >>

WorkspaceOf(c) == ConcurrentWorkspaces[((c - 1) % Len(ConcurrentWorkspaces)) + 1]

ConcurrentOps ==
  {"calculateBlobId", "parseLoaderStructure", "verifyLoaderBlobId", "toCompactSignature"}

\* One frame for the whole module: the declarations are module-level variables
FrameOf_ModuleLevel(c) == 1

\* The frame that holds the declarations of the call of caller c
FrameOf(c) == c

NoFrame == [split |-> NoOutcome, expectedBlobId |-> NoOutcome, loaderComponents |-> NoOutcome]

InitConc ==
  /\ NoWorkspace
  /\ utilArg = <<>>
  /\ heap = NotHeld
  /\ gas = NotHeld
  /\ deploy = NotHeld
  /\ callers = [pcs |-> [c \in Callers |-> [op |-> "none", at |-> 0]],
                frames |-> [c \in Callers |-> NoFrame],
                outcome |-> [c \in Callers |-> NoOutcome],
                overlapped |-> [c \in Callers |-> FALSE]]

InCall(c) == callers.pcs[c].at > 0
At(c, op, at) == callers.pcs[c] = [op |-> op, at |-> at]

\* Caller c takes a step: it goes to statement `at` (0: the call has ended with
\* `outcome`), the frames become `frames`; every other caller that is inside a
\* call has had a step of another caller during its call
StepTo(c, at, frames, outcome) ==
  /\ callers' = [pcs |-> [callers.pcs EXCEPT ![c].at = at],
                 frames |-> frames,
                 outcome |-> [callers.outcome EXCEPT ![c] = outcome],
                 overlapped |-> [d \in Callers |->
                                   IF d # c /\ InCall(d) THEN TRUE
                                   ELSE callers.overlapped[d]]]
  /\ UNCHANGED <<fullBytecode, fullAbi, loaderBytecode, utilArg, call,
                 firstBlobId, recalculated, heap, gas, deploy>>

\* A caller that is in no call calls one of the functions with what it holds
StartCall(c, op) ==
  /\ ~InCall(c)
  /\ callers' = [callers EXCEPT !.pcs[c] = [op |-> op, at |-> 1],
                                !.outcome[c] = NoOutcome,
                                !.overlapped[c] = FALSE]
  /\ UNCHANGED <<fullBytecode, fullAbi, loaderBytecode, utilArg, call,
                 firstBlobId, recalculated, heap, gas, deploy>>

\* calculateBlobId (blobUtils.ts:61-66): const { codeSection } = split..; return sha256
CalculateStep(c) ==
  LET w == WorkspaceOf(c)
      frame == callers.frames[FrameOf(c)]
      split == splitPredicateBytecode(w.image, w.abi)
  IN  \/ /\ At(c, "calculateBlobId", 1)
         /\ IF split.kind = "throw"
            THEN StepTo(c, 0, callers.frames, split)
            ELSE StepTo(c, 2, [callers.frames EXCEPT ![FrameOf(c)].split = split], NoOutcome)
      \/ /\ At(c, "calculateBlobId", 2)
         /\ StepTo(c, 0, callers.frames, Return(sha256(frame.split.value.codeSection)))

\* parseLoaderStructure (blobUtils.ts:73-109)
ParseStep(c) ==
  /\ At(c, "parseLoaderStructure", 1)
  /\ StepTo(c, 0, callers.frames, parseLoaderStructure(WorkspaceOf(c).loader))

\* verifyLoaderBlobId (blobUtils.ts:121-135): const expectedBlobId; const
\* loaderComponents; the comparison
VerifyStep(c) ==
  LET w == WorkspaceOf(c)
      frame == callers.frames[FrameOf(c)]
      expectedBlobId == calculateBlobId(w.image, w.abi)
      loaderComponents == parseLoaderStructure(w.loader)
  IN  \/ /\ At(c, "verifyLoaderBlobId", 1)
         /\ IF expectedBlobId.kind = "throw"
            THEN StepTo(c, 0, callers.frames, expectedBlobId)
            ELSE StepTo(c, 2, [callers.frames EXCEPT
                                 ![FrameOf(c)].expectedBlobId = expectedBlobId], NoOutcome)
      \/ /\ At(c, "verifyLoaderBlobId", 2)
         /\ IF IsNull(loaderComponents.value)
            THEN StepTo(c, 0, callers.frames, Return(FALSE))
            ELSE StepTo(c, 3, [callers.frames EXCEPT
                                 ![FrameOf(c)].loaderComponents = loaderComponents], NoOutcome)
      \/ /\ At(c, "verifyLoaderBlobId", 3)
         /\ StepTo(c, 0, callers.frames,
                   Return(bytesToHex(frame.loaderComponents.value.blobId)
                            = frame.expectedBlobId.value))

CompactStep(c) ==
  /\ At(c, "toCompactSignature", 1)
  /\ StepTo(c, 0, callers.frames, toCompactSignature(WorkspaceOf(c).signature))

NextConc ==
  \E c \in Callers :
    \/ \E op \in ConcurrentOps : StartCall(c, op)
    \/ CalculateStep(c)
    \/ ParseStep(c)
    \/ VerifyStep(c)
    \/ CompactStep(c)

SpecConc == InitConc /\ [][NextConc]_vars

----------------------------------------------------------------------------
(* Gas estimation (gasEstimationDeepFix.ts).  A gas field of a request is
   undefined or a BN; a BN is an object, so `x || d` gives d only for an
   undefined x, and `!x` holds only for an undefined x. *)

Undefined == -1

\* x || d for a field x that is undefined or a BN
OrDefault(x, d) == IF x = Undefined THEN d ELSE x

\* !fee || fee.eq(0)
MissingOrZero(fee) == fee = Undefined \/ fee = 0

\* The gas fields of a ScriptTransactionRequest and the total size of its witnesses
FeeValues == {Undefined} \cup 0..MaxFee
GasLimitValues == {Undefined, 0, 100}
WitnessLimitValues == {Undefined, 0, 7}
WitnessSizes == {0, 6000}

Requests ==
  [gasLimit : GasLimitValues, maxFeePerGas : FeeValues,
   witnessLimit : WitnessLimitValues, witnessSize : WitnessSizes]

\* What provider.estimatePredicates resolves to: a request with any gas fields,
\* and the witnesses of the request it was given
EstimatesOf(request) == {e \in Requests : e.witnessSize = request.witnessSize}

\* rebuildTransactionWithGas (19-68): a new request with the three gas fields
\* set and the inputs, outputs and witnesses copied
rebuildTransactionWithGas(estimatedRequest, originalMaxFee) ==
  [gasLimit |-> OrDefault(estimatedRequest.gasLimit, 200000),
   maxFeePerGas |-> originalMaxFee,
   witnessLimit |-> OrDefault(estimatedRequest.witnessLimit, 10000),
   witnessSize |-> estimatedRequest.witnessSize]

\* forceSetGasParameters (73-109): Object.defineProperty of the three fields
forceSetGasParameters(request, gasLimit, maxFeePerGas, witnessLimit) ==
  [request EXCEPT !.gasLimit = gasLimit,
                  !.maxFeePerGas = maxFeePerGas,
                  !.witnessLimit = witnessLimit]

CriticalError == "CRITICAL: Unable to set maxFeePerGas - all strategies failed"

\* The final validation of estimateWithFallbacks left out
FinalValidation_Skipped(estimated) == Return(estimated)

\* The final validation of estimateWithFallbacks (159-163)
FinalValidation(estimated) ==
  IF MissingOrZero(estimated.maxFeePerGas) THEN Throw(CriticalError)
  ELSE Return(estimated)

\* The fix of maxFeePerGas without BN.max: the original value as it is
estimateAndFixGasParameters_NoMinimum(request, provided) ==
  LET originalGasLimit == request.gasLimit
      originalMaxFee == OrDefault(request.maxFeePerGas, 1)
      fee == IF MissingOrZero(provided.maxFeePerGas) THEN originalMaxFee
             ELSE provided.maxFeePerGas
      limit == IF MissingOrZero(provided.gasLimit) THEN OrDefault(originalGasLimit, 100000)
               ELSE provided.gasLimit
      witnessLimit == IF provided.witnessLimit = Undefined
                      THEN Max2(provided.witnessSize * 2, 10000)
                      ELSE provided.witnessLimit
  IN  [gasLimit |-> (limit * 120) \div 100,
       maxFeePerGas |-> fee,
       witnessLimit |-> witnessLimit,
       witnessSize |-> provided.witnessSize]

\* estimateAndFixGasParameters (277-341) on the request that
\* provider.estimatePredicates has resolved to
estimateAndFixGasParameters(request, provided) ==
  LET originalGasLimit == request.gasLimit
      originalMaxFee == OrDefault(request.maxFeePerGas, 1)
      fee == IF MissingOrZero(provided.maxFeePerGas) THEN Max2(originalMaxFee, 1)
             ELSE provided.maxFeePerGas
      limit == IF MissingOrZero(provided.gasLimit) THEN OrDefault(originalGasLimit, 100000)
               ELSE provided.gasLimit
      witnessLimit == IF provided.witnessLimit = Undefined
                      THEN Max2(provided.witnessSize * 2, 10000)
                      ELSE provided.witnessLimit
  IN  [gasLimit |-> (limit * 120) \div 100,
       maxFeePerGas |-> fee,
       witnessLimit |-> witnessLimit,
       witnessSize |-> provided.witnessSize]

NoRequest == [gasLimit |-> Undefined, maxFeePerGas |-> Undefined,
              witnessLimit |-> Undefined, witnessSize |-> 0]

InitGas ==
  /\ NoWorkspace
  /\ utilArg = <<>>
  /\ heap = NotHeld
  /\ callers = NotHeld
  /\ deploy = NotHeld
  /\ \E request \in Requests :
       gas = [fn |-> "none", pc |-> "idle", request |-> request,
              originalMaxFee |-> Undefined, originalGasLimit |-> Undefined,
              estimated |-> NoRequest, tried |-> <<>>,
              outcome |-> NoOutcome, sent |-> FALSE]

GasFrame ==
  UNCHANGED <<fullBytecode, fullAbi, loaderBytecode, utilArg, call,
              firstBlobId, recalculated, heap, callers, deploy>>

\* One more strategy has been tried and has left the request `estimated`
Tried(strategy, estimated) ==
  Append(gas.tried, [strategy |-> strategy, maxFeePerGas |-> estimated.maxFeePerGas])

\* estimateWithFallbacks 123-124: the original values are stored
StartEstimateWithFallbacks ==
  /\ gas.pc = "idle"
  /\ gas' = [gas EXCEPT !.fn = "estimateWithFallbacks",
                        !.pc = "strategy1",
                        !.originalMaxFee = OrDefault(gas.request.maxFeePerGas, 1),
                        !.originalGasLimit = OrDefault(gas.request.gasLimit, 200000)]
  /\ GasFrame

\* 128-131: await provider.estimatePredicates(request); a rejection ends the call
NormalEstimation ==
  /\ gas.pc = "strategy1"
  /\ \/ \E estimated \in EstimatesOf(gas.request) :
          gas' = [gas EXCEPT !.estimated = estimated,
                             !.tried = Tried(1, estimated),
                             !.pc = IF MissingOrZero(estimated.maxFeePerGas)
                                    THEN "strategy2" ELSE "validate"]
     \/ gas' = [gas EXCEPT !.pc = "done",
                           !.outcome = Throw("estimatePredicates rejected")]
  /\ GasFrame

\* 136-139: the transaction is rebuilt
RebuildTransaction ==
  /\ gas.pc = "strategy2"
  /\ LET estimated == rebuildTransactionWithGas(gas.estimated, gas.originalMaxFee)
     IN  gas' = [gas EXCEPT !.estimated = estimated,
                            !.tried = Tried(2, estimated),
                            !.pc = IF MissingOrZero(estimated.maxFeePerGas)
                                   THEN "strategy3" ELSE "validate"]
  /\ GasFrame

\* 144-149: the properties are force-set
ForceSetProperties ==
  /\ gas.pc = "strategy3"
  /\ LET estimated ==
           forceSetGasParameters(gas.estimated,
                                 OrDefault(gas.estimated.gasLimit, gas.originalGasLimit),
                                 gas.originalMaxFee,
                                 OrDefault(gas.estimated.witnessLimit, 10000))
     IN  gas' = [gas EXCEPT !.estimated = estimated,
                            !.tried = Tried(3, estimated),
                            !.pc = "validate"]
  /\ GasFrame

\* 159-163
ValidateAndReturn ==
  /\ gas.pc = "validate"
  /\ gas' = [gas EXCEPT !.pc = "done", !.outcome = FinalValidation(gas.estimated)]
  /\ GasFrame

\* executeWithFixedGasEstimation 427-430
StartExecuteWithFixedGasEstimation ==
  /\ gas.pc = "idle"
  /\ gas' = [gas EXCEPT !.fn = "executeWithFixedGasEstimation", !.pc = "estimate"]
  /\ GasFrame

\* 430: await estimateAndFixGasParameters(provider, request); a rejection of
\* provider.estimatePredicates (290) ends both calls
EstimateAndFix ==
  /\ gas.pc = "estimate"
  /\ \/ \E provided \in EstimatesOf(gas.request) :
          gas' = [gas EXCEPT !.estimated = estimateAndFixGasParameters(gas.request, provided),
                             !.pc = "check"]
     \/ gas' = [gas EXCEPT !.pc = "done",
                           !.outcome = Throw("estimatePredicates rejected")]
  /\ GasFrame

\* 436-446: the check of maxFeePerGas, then provider.sendTransaction and
\* waitForResult, which resolve or reject
CheckAndSend ==
  /\ gas.pc = "check"
  /\ IF MissingOrZero(gas.estimated.maxFeePerGas)
     THEN gas' = [gas EXCEPT !.pc = "done",
                    !.outcome = Throw("maxFeePerGas is still 0 after fixes - transaction will fail")]
     ELSE \E result \in {Return("transaction result"), Throw("sendTransaction rejected")} :
            gas' = [gas EXCEPT !.pc = "done", !.sent = TRUE, !.outcome = result]
  /\ GasFrame

NextGas ==
  \/ StartEstimateWithFallbacks
  \/ NormalEstimation
  \/ RebuildTransaction
  \/ ForceSetProperties
  \/ ValidateAndReturn
  \/ StartExecuteWithFixedGasEstimation
  \/ EstimateAndFix
  \/ CheckAndSend

SpecGas == InitGas /\ [][NextGas]_vars

----------------------------------------------------------------------------
(* Blob deployment (blobDeployment.ts): deployPredicateBlob, one await after
   the other inside one try block. *)

\* 'BlobIdAlreadyUploaded'
AlreadyUploaded ==
  <<"B", "l", "o", "b", "I", "d", "A", "l", "r", "e", "a", "d", "y",
    "U", "p", "l", "o", "a", "d", "e", "d">>

\* String.prototype.includes tested by equality
Includes_Equals(s, t) == s = t

\* String.prototype.includes
Includes(s, t) ==
  \E i \in 1..(Len(s) - Len(t) + 1) : SubSeq(s, i, i + Len(t) - 1) = t

\* Messages of the raw error of a rejection
RawMessages ==
  { AlreadyUploaded,
    <<"(">> \o AlreadyUploaded \o <<")">>,
    SubSeq(AlreadyUploaded, 1, Len(AlreadyUploaded) - 1),
    [AlreadyUploaded EXCEPT ![7] = "a"],
    <<"N", "o">>,
    <<>> }

\* error.rawError: undefined, without a message, or with one
RawErrors ==
  { [present |-> FALSE, hasMessage |-> FALSE, message |-> <<>>],
    [present |-> TRUE, hasMessage |-> FALSE, message |-> <<>>] } \cup
  { [present |-> TRUE, hasMessage |-> TRUE, message |-> msg] : msg \in RawMessages }

\* The errors that the awaited call `thrower` may reject with
RejectionsOf(thrower) ==
  { [thrower |-> thrower, message |-> "rejected", rawError |-> raw] : raw \in RawErrors }

\* An Error thrown by calculateBlobId: it has no rawError
ErrorOf(message) ==
  [thrower |-> "calculateBlobId", message |-> message,
   rawError |-> [present |-> FALSE, hasMessage |-> FALSE, message |-> <<>>]]

NoError == ErrorOf("none")

\* error?.rawError?.message?.includes('BlobIdAlreadyUploaded')
IsAlreadyUploaded(error) ==
  /\ error.rawError.present
  /\ error.rawError.hasMessage
  /\ Includes(error.rawError.message, AlreadyUploaded)

\* The predicate classes: static bytecode and abi
PredicateClasses ==
  { [bytecode |-> ConcurrentWorkspaces[k].image, abi |-> ConcurrentWorkspaces[k].abi] :
      k \in 1..Len(ConcurrentWorkspaces) }

\* The blobId that predicate.deploy resolves with: the network's id of the
\* code, or another one
DeploymentBlobIds(blobId) == {blobId, Hexlify(FakeBlobId)}

NoResult == [blobId |-> <<>>, transactionId |-> "", status |-> "none"]

InitDeploy ==
  /\ NoWorkspace
  /\ utilArg = <<>>
  /\ heap = NotHeld
  /\ callers = NotHeld
  /\ gas = NotHeld
  /\ \E class \in PredicateClasses :
       deploy = [pc |-> "calculateBlobId", class |-> class, blobId |-> <<>>,
                 deploymentBlobId |-> <<>>, waited |-> FALSE,
                 caught |-> FALSE, error |-> NoError,
                 thrown |-> FALSE, thrownError |-> NoError,
                 result |-> NoResult]

DeployFrame ==
  UNCHANGED <<fullBytecode, fullAbi, loaderBytecode, utilArg, call,
              firstBlobId, recalculated, heap, callers, gas>>

\* A statement of the try block has thrown: control is in the catch block
Caught(error) == [deploy EXCEPT !.pc = "catch", !.caught = TRUE, !.error = error]

\* 88: const blobId = calculateBlobId(PredicateClass.bytecode, PredicateClass.abi)
CalculateLocalBlobId ==
  /\ deploy.pc = "calculateBlobId"
  /\ LET blobId == calculateBlobId(deploy.class.bytecode, deploy.class.abi)
     IN  deploy' = IF blobId.kind = "throw" THEN Caught(ErrorOf(blobId.value))
                   ELSE [deploy EXCEPT !.pc = "getBaseAssetId", !.blobId = blobId.value]
  /\ DeployFrame

\* 97: await provider.getBaseAssetId()
GetBaseAssetId ==
  /\ deploy.pc = "getBaseAssetId"
  /\ \/ deploy' = [deploy EXCEPT !.pc = "getBalance"]
     \/ \E error \in RejectionsOf("getBaseAssetId") : deploy' = Caught(error)
  /\ DeployFrame

\* 98: await account.getBalance(baseAssetId)
GetBalance ==
  /\ deploy.pc = "getBalance"
  /\ \/ deploy' = [deploy EXCEPT !.pc = "deploy"]
     \/ \E error \in RejectionsOf("getBalance") : deploy' = Caught(error)
  /\ DeployFrame

\* 106: await predicate.deploy(account)
Deploy ==
  /\ deploy.pc = "deploy"
  /\ \/ \E id \in DeploymentBlobIds(deploy.blobId) :
          deploy' = [deploy EXCEPT !.pc = "waitForResult", !.deploymentBlobId = id]
     \/ \E error \in RejectionsOf("deploy") : deploy' = Caught(error)
  /\ DeployFrame

\* 107: await waitForResult()
WaitForResult ==
  /\ deploy.pc = "waitForResult"
  /\ \/ deploy' = [deploy EXCEPT !.pc = "return", !.waited = TRUE]
     \/ \E error \in RejectionsOf("waitForResult") : deploy' = Caught(error)
  /\ DeployFrame

\* 109-123: the mismatch is only logged; the deployment's blobId is returned
ReturnSuccess ==
  /\ deploy.pc = "return"
  /\ deploy' = [deploy EXCEPT !.pc = "done",
                  !.result = [blobId |-> deploy.deploymentBlobId,
                              transactionId |-> "result.id",
                              status |-> "success"]]
  /\ DeployFrame

\* 124-142: the catch block
Catch ==
  /\ deploy.pc = "catch"
  /\ IF IsAlreadyUploaded(deploy.error)
     THEN LET blobId == calculateBlobId(deploy.class.bytecode, deploy.class.abi)
          IN  deploy' = IF blobId.kind = "throw"
                        THEN [deploy EXCEPT !.pc = "done", !.thrown = TRUE,
                                            !.thrownError = ErrorOf(blobId.value)]
                        ELSE [deploy EXCEPT !.pc = "done",
                                !.result = [blobId |-> blobId.value,
                                            transactionId |-> "",
                                            status |-> "already_deployed"]]
     ELSE deploy' = [deploy EXCEPT !.pc = "done", !.thrown = TRUE,
                                   !.thrownError = deploy.error]
  /\ DeployFrame

NextDeploy ==
  \/ CalculateLocalBlobId
  \/ GetBaseAssetId
  \/ GetBalance
  \/ Deploy
  \/ WaitForResult
  \/ ReturnSuccess
  \/ Catch

SpecDeploy == InitDeploy /\ [][NextDeploy]_vars

----------------------------------------------------------------------------
(* Vocabulary of the properties, stated without the functions under test *)

\* The layout has at least one entry
NonEmptyLayout(abi) == abi.hasConfigurables /\ Len(abi.configurables) >= 1

\* The offsets of the entries of a layout, as a set
OffsetSet(abi) == {abi.configurables[i].offset : i \in 1..Len(abi.configurables)}

\* The least element of a non-empty set of offsets
LeastOffset(abi) == CHOOSE o \in OffsetSet(abi) : \A q \in OffsetSet(abi) : o <= q

\* The bytes of the image at the positions [from, to) that exist in it
BytesAt(image, from, to) ==
  LET positions == {i \in 1..Len(image) : from < i /\ i <= to}
  IN  [j \in 1..Cardinality(positions) |-> image[from + j]]

\* The code section: the bytes before the least offset
CodeBytes(image, abi) == BytesAt(image, 0, LeastOffset(abi))

\* The bytes 48..79 of a loader image (positions 49..80 of the sequence)
EmbeddedField(loader) == [j \in 1..32 |-> loader[48 + j]]

Called(op) == call.op = op
Returned(op) == call.op = op /\ call.outcome.kind = "return"

----------------------------------------------------------------------------
(* C1: for a non-empty layout, verifyLoaderBlobId returns true exactly when the
   loader has at least 88 bytes and its bytes 48..79 are the digest of the code
   section of the full image. *)
C1_VerifyIffEmbeddedDigest ==
  (Called("verifyLoaderBlobId") /\ NonEmptyLayout(fullAbi)) =>
    /\ call.outcome.kind = "return"
    /\ call.outcome.value =
         (/\ Len(loaderBytecode) >= 88
          /\ EmbeddedField(loaderBytecode) =
               Sha256Digest(CodeBytes(fullBytecode, fullAbi)))

\* A loader embedding the right digest has been verified, with a code section
\* that is a proper, non-empty prefix of the image
C1_Witness ==
  /\ Returned("verifyLoaderBlobId")
  /\ call.outcome.value = TRUE
  /\ Len(CodeBytes(fullBytecode, fullAbi)) \in 1..(Len(fullBytecode) - 1)

(* C2: section-independence.  Whenever calculateBlobId has returned a BlobId for
   the image, it returns the same BlobId for every other image whose code
   section under the same layout is byte-identical. *)
C2_SectionIndependence ==
  Returned("calculateBlobId") =>
    \A other \in Images :
      CodeBytes(other, fullAbi) = CodeBytes(fullBytecode, fullAbi) =>
        calculateBlobId(other, fullAbi) = call.outcome

\* A BlobId has been computed for an image that shares a non-empty code section
\* with another image of different configurables
C2_Witness ==
  /\ Returned("calculateBlobId")
  /\ CodeBytes(fullBytecode, fullAbi) # <<>>
  /\ \E other \in Images :
       /\ other # fullBytecode
       /\ Len(other) = Len(fullBytecode)
       /\ CodeBytes(other, fullAbi) = CodeBytes(fullBytecode, fullAbi)

\* Values a byte can be changed to: its two neighbours (another low nibble, or a
\* carry into the high nibble) and all bits flipped
TamperValues(b) == {(b + 1) % 256, (b + 255) % 256, 255 - b}

\* The loader with the byte at position pos (0-based) set to v
Tampered(loader, pos, v) == [loader EXCEPT ![pos + 1] = v]

(* C3: tamper detection.  Whenever verifyLoaderBlobId has returned true for the
   loader, it returns false for the same image and layout on every loader that
   differs from it in one byte at a position in 48..79. *)
C3_TamperDetection ==
  (Returned("verifyLoaderBlobId") /\ call.outcome.value = TRUE) =>
    \A pos \in 48..79 :
      \A v \in TamperValues(loaderBytecode[pos + 1]) :
        verifyLoaderBlobId(fullBytecode, fullAbi, Tampered(loaderBytecode, pos, v))
          = Return(FALSE)

\* verifyLoaderBlobId has returned false on a loader that is one byte of the
\* blobId field away from a loader it accepts
C3_Witness ==
  /\ Returned("verifyLoaderBlobId")
  /\ call.outcome.value = FALSE
  /\ Len(loaderBytecode) >= 88
  /\ \E pos \in 48..79 :
       \E v \in TamperValues(loaderBytecode[pos + 1]) :
         verifyLoaderBlobId(fullBytecode, fullAbi, Tampered(loaderBytecode, pos, v))
           = Return(TRUE)

C5_ShortInputRejection ==
  Called("parseLoaderStructure") =>
    /\ call.outcome.kind = "return"
    /\ IsNull(call.outcome.value) <=> (Len(loaderBytecode) < 88)
    /\ \A n \in 0..Len(loaderBytecode) :
         LET r == parseLoaderStructure(SubSeq(loaderBytecode, 1, n))
         IN  /\ r.kind = "return"
             /\ IsNull(r.value) <=> (n < 88)

\* parseLoaderStructure has returned null on a loader one byte short of 88
C5_Witness ==
  /\ Returned("parseLoaderStructure")
  /\ Len(loaderBytecode) = 87
  /\ IsNull(call.outcome.value)

(* C6: with a non-empty layout and a loader shorter than 88 bytes,
   verifyLoaderBlobId returns false and throws nothing. *)
C6_ShortLoaderVerifiesFalse ==
  (Called("verifyLoaderBlobId") /\ NonEmptyLayout(fullAbi) /\ Len(loaderBytecode) < 88) =>
    call.outcome = Return(FALSE)

\* verifyLoaderBlobId has returned on a loader of 87 bytes that embeds the right digest
C6_Witness ==
  /\ Returned("verifyLoaderBlobId")
  /\ NonEmptyLayout(fullAbi)
  /\ Len(loaderBytecode) = 87
  /\ [j \in 1..32 |-> loaderBytecode[48 + j]] = Sha256Digest(CodeBytes(fullBytecode, fullAbi))
  /\ call.outcome.value = FALSE

(* C7: getConfigurablesSectionOffset throws 'No configurables found in ABI' when
   the ABI has no configurables or an empty list of them, the error leaves
   splitPredicateBytecode and calculateBlobId unchanged, and with at least one
   entry none of the three throws. *)
C7_EmptyLayoutThrows ==
  call.op \in {"getConfigurablesSectionOffset", "splitPredicateBytecode", "calculateBlobId"} =>
    IF NonEmptyLayout(fullAbi)
    THEN call.outcome.kind = "return"
    ELSE call.outcome = Throw("No configurables found in ABI")

\* calculateBlobId has thrown on an ABI without a configurables property
C7_Witness ==
  /\ Called("calculateBlobId")
  /\ call.outcome.kind = "throw"
  /\ ~fullAbi.hasConfigurables

(* C8: with at least one entry, getConfigurablesSectionOffset returns the offset
   of some entry that no entry undercuts, and the same value for every layout
   with the same set of offsets, whatever the order and the repetitions. *)
C8_MinimumOffset ==
  Returned("getConfigurablesSectionOffset") =>
    /\ call.outcome.value \in OffsetSet(fullAbi)
    /\ \A q \in OffsetSet(fullAbi) : call.outcome.value <= q
    /\ \A other \in Abis :
         (NonEmptyLayout(other) /\ OffsetSet(other) = OffsetSet(fullAbi)) =>
           getConfigurablesSectionOffset(other) = call.outcome

\* The offset has been computed for a layout whose first entry is not the least
C8_Witness ==
  /\ Returned("getConfigurablesSectionOffset")
  /\ Len(fullAbi.configurables) >= 2
  /\ fullAbi.configurables[1].offset > call.outcome.value

(* C9: when the least offset lies within the image, splitPredicateBytecode
   returns the bytes [0, offset) as codeSection and the bytes [offset, len) as
   configurablesSection; their lengths add up to the length of the image and
   their concatenation is the image. *)
C9_SplitSections ==
  (Returned("splitPredicateBytecode") /\ LeastOffset(fullAbi) <= Len(fullBytecode)) =>
    LET sections == call.outcome.value
        offset == LeastOffset(fullAbi)
    IN  /\ sections.codeSection = BytesAt(fullBytecode, 0, offset)
        /\ sections.configurablesSection = BytesAt(fullBytecode, offset, Len(fullBytecode))
        /\ Len(sections.codeSection) = offset
        /\ Len(sections.codeSection) + Len(sections.configurablesSection) = Len(fullBytecode)
        /\ sections.codeSection \o sections.configurablesSection = fullBytecode

\* An image has been split strictly inside
C9_Witness ==
  /\ Returned("splitPredicateBytecode")
  /\ LeastOffset(fullAbi) \in 1..(Len(fullBytecode) - 1)

(* C10: splitPredicateBytecode fails whenever the least offset is greater than
   the length of the image, and returns no sections then. *)
C10_OffsetOutOfRangeFails ==
  (Called("splitPredicateBytecode") /\ NonEmptyLayout(fullAbi)
     /\ LeastOffset(fullAbi) > Len(fullBytecode)) =>
    call.outcome.kind = "throw"

\* parseLoaderStructure takes the loader image alone.  What a formula evaluates
\* on variations of the held loader is the same in all states holding that
\* loader, and is evaluated in those whose ABI has no configurables property
\* (a workspace that holds every loader image).
OncePerLoader == ~fullAbi.hasConfigurables

\* Positions used to vary single bytes of the 88-byte header: the two ends of
\* each of its three fields
HeaderEdges == {0, 47, 48, 79, 80, 87}

(* C11: on every loader of at least 88 bytes parseLoaderStructure returns as
   instructions the 48 bytes 0..47 and as blobId the 32 bytes 48..79, and still
   does so when a byte of the header is given another value. *)
C11_InstructionsAndBlobId ==
  (Returned("parseLoaderStructure") /\ Len(loaderBytecode) >= 88) =>
    /\ call.outcome.value.instructions = BytesAt(loaderBytecode, 0, 48)
    /\ Len(call.outcome.value.instructions) = 48
    /\ call.outcome.value.blobId = BytesAt(loaderBytecode, 48, 80)
    /\ Len(call.outcome.value.blobId) = 32
    /\ OncePerLoader =>
       \A pos \in HeaderEdges :
         LET other == Tampered(loaderBytecode, pos, 255 - loaderBytecode[pos + 1])
             parsed == parseLoaderStructure(other).value
         IN  /\ parsed.instructions = BytesAt(other, 0, 48)
             /\ parsed.blobId = BytesAt(other, 48, 80)

\* A loader longer than its header, embedding the fake id, has been parsed
C11_Witness ==
  /\ Returned("parseLoaderStructure")
  /\ Len(loaderBytecode) > 88
  /\ call.outcome.value.blobId = FakeBlobId
  /\ call.outcome.value.instructions = BootstrapInstructions

\* The unsigned big-endian value of 8 bytes as a BigInt: each limb is two bytes
BigEndianValue(b) ==
  BigNormalize(<<b[8] + 256 * b[7], b[6] + 256 * b[5],
                 b[4] + 256 * b[3], b[2] + 256 * b[1]>>)

\* A BigInt in 0 .. 2^64-1: at most four limbs, each below 65536
IsUint64(n) == Len(n) <= 4 /\ \A k \in 1..Len(n) : n[k] \in 0..65535

\* The bytes 80..87 of a loader image
SectionLengthField(loader) == [j \in 1..8 |-> loader[80 + j]]

\* The loader with its bytes 80..87 replaced
WithSectionLengthField(loader, field) ==
  [k \in 1..Len(loader) |-> IF k \in 81..88 THEN field[k - 80] ELSE loader[k]]

\* Section-length fields beyond those of the loader images: distinct bytes,
\* 2^63, 2^32, 2^32-1, and 2^53+1 (not representable as a double)
SectionLengthSamples ==
  {<<1, 2, 3, 4, 5, 6, 7, 8>>,
   <<128, 0, 0, 0, 0, 0, 0, 0>>,
   <<0, 0, 0, 1, 0, 0, 0, 0>>,
   <<0, 0, 0, 0, 255, 255, 255, 255>>,
   <<0, 32, 0, 0, 0, 0, 0, 1>>}

(* C12: on every loader of at least 88 bytes the sectionLength returned by
   parseLoaderStructure is the unsigned big-endian value of the bytes 80..87, a
   value in 0 .. 2^64-1; the same holds with any sample field in those bytes. *)
C12_SectionLengthBigEndian ==
  (Returned("parseLoaderStructure") /\ Len(loaderBytecode) >= 88) =>
    /\ call.outcome.value.sectionLength = BigEndianValue(SectionLengthField(loaderBytecode))
    /\ IsUint64(call.outcome.value.sectionLength)
    /\ OncePerLoader =>
       \A field \in SectionLengthSamples :
         LET parsed == parseLoaderStructure(WithSectionLengthField(loaderBytecode, field)).value
         IN  /\ parsed.sectionLength = BigEndianValue(field)
             /\ IsUint64(parsed.sectionLength)

\* A loader whose section-length field is 2^64-1 has been parsed
C12_Witness ==
  /\ Returned("parseLoaderStructure")
  /\ Len(loaderBytecode) >= 88
  /\ call.outcome.value.sectionLength = <<65535, 65535, 65535, 65535>>

\* A small natural number as a BigInt
BigFromNat(n) == BigNormalize(<<n % 65536, n \div 65536>>)

(* C13, as claimed: on every loader of at least 88 bytes the configurables
   returned by parseLoaderStructure hold exactly sectionLength bytes. *)
C13_ConfigurablesLengthIsSectionLength ==
  (Returned("parseLoaderStructure") /\ Len(loaderBytecode) >= 88) =>
    BigFromNat(Len(call.outcome.value.configurables)) = call.outcome.value.sectionLength

(* C13, amended: on every loader of at least 88 bytes the configurables returned
   by parseLoaderStructure are all the bytes from offset 88 to the end of the
   image, length - 88 of them, whatever the section-length field holds; their
   number equals sectionLength exactly when the field states length - 88. *)
C13_ConfigurablesAreRemainingBytes ==
  (Returned("parseLoaderStructure") /\ Len(loaderBytecode) >= 88) =>
    /\ call.outcome.value.configurables = BytesAt(loaderBytecode, 88, Len(loaderBytecode))
    /\ Len(call.outcome.value.configurables) = Len(loaderBytecode) - 88
    /\ (BigFromNat(Len(call.outcome.value.configurables)) = call.outcome.value.sectionLength)
         <=> (BigEndianValue(SectionLengthField(loaderBytecode))
                = BigFromNat(Len(loaderBytecode) - 88))
    /\ OncePerLoader =>
       \A field \in SectionLengthSamples :
         parseLoaderStructure(WithSectionLengthField(loaderBytecode, field)).value.configurables
           = call.outcome.value.configurables

\* A loader with configurables after a section-length field of zero has been parsed
C13_Witness ==
  /\ Returned("parseLoaderStructure")
  /\ Len(loaderBytecode) > 88
  /\ call.outcome.value.sectionLength = <<>>
  /\ call.outcome.value.configurables # <<>>

LowerHexDigits ==
  {"0", "1", "2", "3", "4", "5", "6", "7", "8", "9", "a", "b", "c", "d", "e", "f"}

\* A string of "0x" followed by exactly n lowercase hexadecimal digits
IsLowerHex(str, n) ==
  /\ Len(str) = 2 + n
  /\ str[1] = "0"
  /\ str[2] = "x"
  /\ \A k \in 3..Len(str) : str[k] \in LowerHexDigits

(* C14: every BlobId returned by calculateBlobId is a string of 66 characters,
   "0x" followed by 64 lowercase hexadecimal digits, also when the code section
   is empty. *)
C14_BlobIdShape ==
  Returned("calculateBlobId") =>
    /\ Len(call.outcome.value) = 66
    /\ IsLowerHex(call.outcome.value, 64)

\* A BlobId with a letter among its digits has been returned for an empty code section
C14_Witness ==
  /\ Returned("calculateBlobId")
  /\ CodeBytes(fullBytecode, fullAbi) = <<>>
  /\ Len(fullBytecode) > 0
  /\ \E k \in 3..Len(call.outcome.value) : call.outcome.value[k] \in {"a", "b", "c", "d", "e", "f"}

\* The sixteen digits in order of their value
DigitOfNibble == <<"0", "1", "2", "3", "4", "5", "6", "7",
                   "8", "9", "a", "b", "c", "d", "e", "f">>

(* C15: bytesToHex maps a sequence of n bytes to "0x" followed by 2n lowercase
   hex digits, byte i giving the digit of its high nibble at position 2+2i and
   of its low nibble at position 3+2i; the empty sequence gives "0x". *)
C15_BytesToHexDigits ==
  Returned("bytesToHex") =>
    LET str == call.outcome.value
        n == Len(utilArg)
    IN  /\ IsLowerHex(str, 2 * n)
        /\ \A i \in 0..(n - 1) :
             /\ str[(2 + 2 * i) + 1] = DigitOfNibble[(utilArg[i + 1] \div 16) + 1]
             /\ str[(3 + 2 * i) + 1] = DigitOfNibble[(utilArg[i + 1] % 16) + 1]
        /\ (n = 0) => (str = <<"0", "x">>)

\* The tests' example has been converted to "0x0123456789abcdef"
C15_Witness ==
  /\ Returned("bytesToHex")
  /\ utilArg = HexFixtureBytes
  /\ call.outcome.value = <<"0", "x", "0", "1", "2", "3", "4", "5", "6", "7",
                            "8", "9", "a", "b", "c", "d", "e", "f">>

\* The hex string of a byte sequence: "0x", then for each byte the digit of its
\* high nibble and the digit of its low nibble
HexStringOf(bytes) ==
  <<"0", "x">> \o
  [k \in 1..(2 * Len(bytes)) |->
     LET b == bytes[(k + 1) \div 2]
     IN  DigitOfNibble[(IF k % 2 = 1 THEN b \div 16 ELSE b % 16) + 1]]

(* C16: for a loader built as 48 instruction bytes, the 32 bytes of a BlobId B,
   8 length bytes and any configurables, the blobId field that
   parseLoaderStructure returns hex-encodes (bytesToHex) to the hex string of
   B; when B is the digest of the code section, that string is the BlobId
   calculateBlobId returns. *)
C16_RoundTripBlobId ==
  (Returned("parseLoaderStructure") /\ Len(loaderBytecode) >= 88) =>
    LET encoded == bytesToHex(call.outcome.value.blobId)
    IN  /\ encoded = HexStringOf(EmbeddedField(loaderBytecode))
        /\ \A B \in EmbeddedIds(fullBytecode), cfg \in LoaderConfigurables :
             \A sl \in {BigEndian8(Len(cfg)), [i \in 1..SECTION_LENGTH_SIZE |-> 255]} :
               (loaderBytecode = BuildLoader(BootstrapInstructions, B, sl, cfg)) =>
                 /\ encoded = HexStringOf(B)
                 /\ (NonEmptyLayout(fullAbi) /\ B = Sha256Digest(CodeBytes(fullBytecode, fullAbi))) =>
                      encoded = calculateBlobId(fullBytecode, fullAbi).value

\* A loader built from the digest of a non-empty code section has been parsed,
\* and its blobId encodes to the calculated BlobId
C16_Witness ==
  /\ Returned("parseLoaderStructure")
  /\ NonEmptyLayout(fullAbi)
  /\ Len(CodeBytes(fullBytecode, fullAbi)) > 0
  /\ loaderBytecode = WellFormedLoader(Sha256Digest(CodeBytes(fullBytecode, fullAbi)),
                                       LongestConfigurables)
  /\ bytesToHex(call.outcome.value.blobId) = calculateBlobId(fullBytecode, fullAbi).value

\* The parity a recovery byte stands for: 27 is subtracted from a byte of 27 or
\* more, and the parity is the last bit of what remains
ParityOfRecoveryByte(v) ==
  LET recovery == IF v >= 27 THEN v - 27 ELSE v
  IN  IF recovery % 2 = 0 THEN 0 ELSE 1

TopBit(byte) == byte \div 128
LowSevenBits(byte) == byte % 128

CompactOf65 == Returned("toCompactSignature") /\ Len(utilArg) = 65

(* C17: for every 65-byte input toCompactSignature returns exactly 64 bytes,
   and the most significant bit of output byte 32 is the parity bit of the
   input's recovery byte v (byte 64); the signature logged by the tests gives
   the compact signature logged with it. *)
C17_CompactShape ==
  /\ (Called("toCompactSignature") /\ Len(utilArg) = 65) =>
       /\ Returned("toCompactSignature")
       /\ Len(call.outcome.value) = 64
       /\ TopBit(call.outcome.value[32 + 1]) = ParityOfRecoveryByte(utilArg[64 + 1])
  /\ (Called("toCompactSignature") /\ utilArg = RecordedSignature) =>
       call.outcome = Return(RecordedCompact)

\* The recorded signature (v = 28, s below 2^255) has been converted: the top
\* bit of byte 32 is set
C17_Witness ==
  /\ CompactOf65
  /\ utilArg = RecordedSignature
  /\ call.outcome.value[32 + 1] = 247

(* C18: toCompactSignature changes nothing but the top bit of s: for every
   65-byte input, output bytes 0..31 are input bytes 0..31 (r), output bytes
   33..63 are input bytes 33..63, and the low 7 bits of output byte 32 are the
   low 7 bits of input byte 32. *)
C18_OnlyTopBitOfSChanges ==
  CompactOf65 =>
    LET compact == call.outcome.value
    IN  /\ \A i \in 0..31 : compact[i + 1] = utilArg[i + 1]
        /\ \A i \in 33..63 : compact[i + 1] = utilArg[i + 1]
        /\ LowSevenBits(compact[32 + 1]) = LowSevenBits(utilArg[32 + 1])

\* A signature whose s starts with 0xff and whose v is 27 has been converted:
\* the top bit is cleared and the seven bits below it are kept (0x7f)
C18_Witness ==
  /\ CompactOf65
  /\ utilArg[32 + 1] = 255
  /\ utilArg[64 + 1] = 27
  /\ call.outcome.value[32 + 1] = 127
  /\ \E i \in 0..31 : utilArg[i + 1] \notin {0, 255}

\* The signature with the same r and s and the recovery byte v
WithRecoveryByte(signature, v) == [signature EXCEPT ![64 + 1] = v]

(* C19: toCompactSignature maps both recovery-byte conventions to the same
   parity: v = 27 and v = 0 clear the top bit of s', v = 28 and v = 1 set it,
   so signatures with equal r and s and v values 27 and 0 (or 28 and 1) yield
   the same compact signature. *)
C19_BothConventions ==
  CompactOf65 =>
    LET v == utilArg[64 + 1]
        compact == call.outcome.value
    IN  /\ (v \in {0, 27}) =>
             /\ TopBit(compact[32 + 1]) = 0
             /\ toCompactSignature(WithRecoveryByte(utilArg, 27)) = call.outcome
             /\ toCompactSignature(WithRecoveryByte(utilArg, 0)) = call.outcome
        /\ (v \in {1, 28}) =>
             /\ TopBit(compact[32 + 1]) = 1
             /\ toCompactSignature(WithRecoveryByte(utilArg, 28)) = call.outcome
             /\ toCompactSignature(WithRecoveryByte(utilArg, 1)) = call.outcome

\* A signature with v = 1 has been converted to the compact signature that the
\* recorded signature (same r and s, v = 28) gives
C19_Witness ==
  /\ CompactOf65
  /\ utilArg = WithRecoveryByte(RecordedSignature, 1)
  /\ call.outcome.value = RecordedCompact

(* C20: toCompactSignature fails with MalformedSignature for every input whose
   length is not exactly 65 bytes, and returns for every input of exactly 65
   bytes, whatever the values of r, s and v. *)
C20_MalformedSignature ==
  Called("toCompactSignature") =>
    /\ (Len(utilArg) # 65) => (call.outcome = Throw("MalformedSignature"))
    /\ (Len(utilArg) = 65) => (call.outcome.kind = "return")

\* A signature of 66 bytes has been rejected
C20_Witness ==
  /\ Called("toCompactSignature")
  /\ Len(utilArg) = 66
  /\ call.outcome = Throw("MalformedSignature")

WithoutPrefix(str) == SubSeq(str, 3, Len(str))

(* C26: hexToBytes inverts bytesToHex: the bytes it returns for the hex string
   of a byte sequence are that sequence; and it returns the same bytes for a
   hex string with and without the "0x" prefix. *)
C26_HexRoundTrip ==
  Returned("hexToBytes") =>
    /\ (call.hex = bytesToHex(utilArg)) => (call.outcome.value = utilArg)
    /\ hexToBytes(bytesToHex(utilArg)) = utilArg
    /\ StartsWith0x(call.hex) =>
         hexToBytes(WithoutPrefix(call.hex)) = call.outcome.value
    /\ ~StartsWith0x(call.hex) =>
         hexToBytes(<<"0", "x">> \o call.hex) = call.outcome.value

\* The hex string of the tests' example, without its prefix, has been converted
\* back to the eight bytes
C26_Witness ==
  /\ Returned("hexToBytes")
  /\ utilArg = HexFixtureBytes
  /\ call.hex = <<"0", "1", "2", "3", "4", "5", "6", "7",
                  "8", "9", "a", "b", "c", "d", "e", "f">>
  /\ call.outcome.value = HexFixtureBytes

\* The buffers behind the arrays the caller passes to the functions
InputArrays == {heap.image, heap.loader, heap.arg}

(* C21: no operation mutates its inputs, and what it returns is fresh: after
   any call of splitPredicateBytecode, calculateBlobId, parseLoaderStructure,
   verifyLoaderBlobId, bytesToHex or hexToBytes, and after the caller changes
   a byte of a returned array, the image, the loader and the utility argument
   hold the bytes they held before, every other returned array holds the bytes
   it held at the return, and no returned array shares a buffer with an input
   or with another returned array. *)
C21_InputsUntouchedResultsFresh ==
  /\ BytesOf(heap.mem, heap.image) = fullBytecode
  /\ BytesOf(heap.mem, heap.loader) = loaderBytecode
  /\ BytesOf(heap.mem, heap.arg) = utilArg
  /\ \A s \in 1..Len(heap.arrays) :
       /\ (s # heap.written) => (BytesOf(heap.mem, heap.arrays[s]) = heap.atReturn[s])
       /\ \A input \in InputArrays : heap.arrays[s].buffer # input.buffer
       /\ \A t \in 1..Len(heap.arrays) :
            (t # s) => (heap.arrays[t].buffer # heap.arrays[s].buffer)

\* The caller has changed a byte of the code section returned by a split of a
\* two-byte image at offset 1, and the image is as it was
C21_Witness ==
  /\ Returned("splitPredicateBytecode")
  /\ Len(fullBytecode) = 2
  /\ heap.written = 1
  /\ BytesOf(heap.mem, heap.arrays[1]) # heap.atReturn[1]
  /\ heap.atReturn[1] = <<fullBytecode[1]>>
  /\ BytesOf(heap.mem, heap.image) = fullBytecode

\* The result of the function called alone on what the caller holds
Alone(op, w) ==
  CASE op = "calculateBlobId" -> calculateBlobId(w.image, w.abi)
    [] op = "parseLoaderStructure" -> parseLoaderStructure(w.loader)
    [] op = "verifyLoaderBlobId" -> verifyLoaderBlobId(w.image, w.abi, w.loader)
    [] op = "toCompactSignature" -> toCompactSignature(w.signature)

Ended(c) == callers.pcs[c].at = 0 /\ callers.pcs[c].op # "none"

(* C22: concurrent callers do not interfere: however the statements of the
   calls of calculateBlobId, parseLoaderStructure, verifyLoaderBlobId and
   toCompactSignature by several callers are interleaved, every call that has
   ended has the outcome the function has when run alone on that caller's own
   inputs. *)
C22_CallersDoNotInterfere ==
  \A c \in Callers :
    Ended(c) => (callers.outcome[c] = Alone(callers.pcs[c].op, WorkspaceOf(c)))

\* Two verifications with different results have ended, each with steps of the
\* other caller taken during it
C22_Witness ==
  /\ Ended(1) /\ Ended(2)
  /\ callers.pcs[1].op = "verifyLoaderBlobId"
  /\ callers.pcs[2].op = "verifyLoaderBlobId"
  /\ callers.overlapped[1] /\ callers.overlapped[2]
  /\ callers.outcome[1] = Return(TRUE)
  /\ callers.outcome[2] = Return(FALSE)

\* The manual check of the tests' workflow (blobUtils.test.ts:171-176)
ManualCheck(image, abi, loader) ==
  bytesToHex(parseLoaderStructure(loader).value.blobId) = calculateBlobId(image, abi).value

\* 32-byte values with digits at the edges of the padding: 0x00.., 0x0f..,
\* 0x10.., and the bytes 0, 1, .., 31
PaddingIds ==
  {[i \in 1..32 |-> 0], [i \in 1..32 |-> 15], [i \in 1..32 |-> 16], [i \in 1..32 |-> i - 1]}

(* C23: for a non-empty layout and a loader of at least 88 bytes,
   verifyLoaderBlobId returns the boolean of the manual check
   bytesToHex(parseLoaderStructure(loader).blobId) === calculateBlobId(image, abi),
   and the hex encoding written out in verifyLoaderBlobId gives the string of
   bytesToHex on the embedded blobId and on the 32-byte values at the edges of
   the padding. *)
C23_VerifyIsManualCheck ==
  (Called("verifyLoaderBlobId") /\ NonEmptyLayout(fullAbi) /\ Len(loaderBytecode) >= 88) =>
    /\ call.outcome = Return(ManualCheck(fullBytecode, fullAbi, loaderBytecode))
    /\ EmbeddedBlobIdHex(EmbeddedField(loaderBytecode))
         = bytesToHex(EmbeddedField(loaderBytecode))
    /\ (fullBytecode = <<>>) =>   \* the same in every state: evaluated in a few
         \A id \in PaddingIds : EmbeddedBlobIdHex(id) = bytesToHex(id)

\* verifyLoaderBlobId has returned true where the manual check is true, on a
\* blobId with a byte below 16 (a digit added by padStart)
C23_Witness ==
  /\ Returned("verifyLoaderBlobId")
  /\ call.outcome.value = TRUE
  /\ Len(loaderBytecode) >= 88
  /\ ManualCheck(fullBytecode, fullAbi, loaderBytecode)
  /\ \E j \in 1..32 : EmbeddedField(loaderBytecode)[j] < 16

\* Loaders of at least 88 bytes that agree with `loader` on the bytes 48..79:
\* other instructions, another section-length field, the configurables cut
\* off, one more byte of configurables, and all of these together
SameBlobIdLoaders(loader) ==
  LET header == SubSeq(loader, 1, 88)
      flipped(l, pos) == [l EXCEPT ![pos + 1] = 255 - @]
  IN  {flipped(flipped(loader, 0), 47),
       flipped(flipped(loader, 80), 87),
       header,
       Append(loader, 9),
       Append(flipped(flipped(flipped(flipped(header, 0), 47), 80), 87), 9)}

(* C24: the result of verifyLoaderBlobId depends on the loader only through
   its length being at least 88 and its bytes 48..79: for the same image and
   layout, every loader of at least 88 bytes that agrees with the held one on
   bytes 48..79 gets the same result, whatever its instructions, its
   section-length bytes, its configurables and its length. *)
C24_OnlyBlobIdFieldMatters ==
  (Called("verifyLoaderBlobId") /\ Len(loaderBytecode) >= 88
     /\ Len(fullAbi.configurables) <= 1) =>
    \A other \in SameBlobIdLoaders(loaderBytecode) :
      /\ Len(other) >= 88
      /\ EmbeddedField(other) = EmbeddedField(loaderBytecode)
      /\ verifyLoaderBlobId(fullBytecode, fullAbi, other) = call.outcome

\* verifyLoaderBlobId has returned true on a loader whose section-length field
\* is zero while configurables bytes follow
C24_Witness ==
  /\ Returned("verifyLoaderBlobId")
  /\ call.outcome.value = TRUE
  /\ Len(loaderBytecode) > 88
  /\ SectionLengthField(loaderBytecode) = [j \in 1..8 |-> 0]

\* The 8 big-endian bytes of a BigInt below 2^64: limb j (of 16 bits, the least
\* significant first) gives the bytes 8 - 2j and 9 - 2j
BigEndianBytesOf(big) ==
  [k \in 1..8 |->
     LET j == (8 - k) \div 2 + 1
         limb == IF j <= Len(big) THEN big[j] ELSE 0
     IN  IF k % 2 = 1 THEN limb \div 256 ELSE limb % 256]

(* C25: parseLoaderStructure loses no information: for every loader of at
   least 88 bytes the returned instructions, the returned blobId, the 8
   big-endian bytes of the returned sectionLength and the returned
   configurables, one after the other, are the input image. *)
C25_ParseLosesNothing ==
  (Returned("parseLoaderStructure") /\ Len(loaderBytecode) >= 88) =>
    LET parsed == call.outcome.value
    IN  parsed.instructions \o parsed.blobId \o BigEndianBytesOf(parsed.sectionLength)
          \o parsed.configurables
        = loaderBytecode

\* A loader with a section-length field of 2^64-1 and configurables has been
\* parsed, and its parts give the image back
C25_Witness ==
  /\ Returned("parseLoaderStructure")
  /\ Len(loaderBytecode) > 88
  /\ BigEndianBytesOf(call.outcome.value.sectionLength) = [k \in 1..8 |-> 255]
  /\ BuildLoader(call.outcome.value.instructions, call.outcome.value.blobId,
                 BigEndianBytesOf(call.outcome.value.sectionLength),
                 call.outcome.value.configurables) = loaderBytecode

(* C27: verifyLoaderBlobId computes the expected BlobId before it parses the
   loader: with an empty layout it throws 'No configurables found in ABI' for
   every loader image, also for one shorter than 88 bytes; for a loader
   shorter than 88 bytes it returns false exactly when the layout is not
   empty. *)
C27_EmptyLayoutBeforeShortLoader ==
  Called("verifyLoaderBlobId") =>
    /\ ~NonEmptyLayout(fullAbi) =>
         call.outcome = Throw("No configurables found in ABI")
    /\ (Len(loaderBytecode) < 88) =>
         ((call.outcome = Return(FALSE)) <=> NonEmptyLayout(fullAbi))

\* verifyLoaderBlobId has thrown for an empty array of configurables and a
\* loader of 10 bytes
C27_Witness ==
  /\ Called("verifyLoaderBlobId")
  /\ fullAbi.hasConfigurables
  /\ fullAbi.configurables = <<>>
  /\ Len(loaderBytecode) = 10
  /\ call.outcome.kind = "throw"

\* The strategies tried so far are 1, 2, 3 in this order, and each one after
\* the first was tried on a maxFeePerGas that the one before had left missing
\* or zero
StrategiesInOrder ==
  \A k \in 1..Len(gas.tried) :
    /\ gas.tried[k].strategy = k
    /\ k > 1 => MissingOrZero(gas.tried[k - 1].maxFeePerGas)

\* The call has returned a request whose maxFeePerGas is present and not zero
ReturnedWithFee ==
  /\ gas.outcome.kind = "return"
  /\ gas.outcome.value = gas.estimated
  /\ ~MissingOrZero(gas.outcome.value.maxFeePerGas)

\* A call of fn has ended
GasEnded(fn) == gas.fn = fn /\ gas.pc = "done"

\* C28 as stated: every path of estimateWithFallbacks ends in a request with a
\* maxFeePerGas or in the CRITICAL error
C28_Original ==
  gas.fn = "estimateWithFallbacks" =>
    /\ StrategiesInOrder
    /\ GasEnded("estimateWithFallbacks") =>
         ReturnedWithFee \/ gas.outcome = Throw(CriticalError)

(* C28: estimateWithFallbacks tries normal estimation, rebuild and force-set
   in this order, and the next one only while maxFeePerGas is missing or zero.
   A call in which provider.estimatePredicates resolves ends in a returned
   request whose maxFeePerGas is present and not zero, or, after all three
   strategies, in the error 'CRITICAL: Unable to set maxFeePerGas - all
   strategies failed'; a rejection of provider.estimatePredicates ends the call
   with that rejection before any fallback.  A request with a missing or zero
   maxFeePerGas is never returned. *)
C28_StrategiesInOrderThenFeeOrThrow ==
  gas.fn = "estimateWithFallbacks" =>
    /\ StrategiesInOrder
    /\ GasEnded("estimateWithFallbacks") =>
         \/ ReturnedWithFee
         \/ /\ gas.outcome = Throw(CriticalError)
            /\ Len(gas.tried) = 3
            /\ MissingOrZero(gas.estimated.maxFeePerGas)
         \/ /\ gas.outcome = Throw("estimatePredicates rejected")
            /\ gas.tried = <<>>
    /\ gas.outcome.kind = "return" => ~MissingOrZero(gas.outcome.value.maxFeePerGas)

\* All three strategies have been tried on a request whose maxFeePerGas is a
\* zero, and the call has ended in the CRITICAL error
C28_Witness ==
  /\ GasEnded("estimateWithFallbacks")
  /\ gas.request.maxFeePerGas = 0
  /\ Len(gas.tried) = 3
  /\ gas.outcome = Throw(CriticalError)

\* estimateAndFixGasParameters has returned to executeWithFixedGasEstimation
EstimationFixed ==
  /\ gas.fn = "executeWithFixedGasEstimation"
  /\ gas.pc = "check" \/ (gas.pc = "done" /\ gas.outcome # Throw("estimatePredicates rejected"))

(* C29: for every request that the provider's estimation resolves to and every
   original request (gas fields missing, zero or positive), the request that
   estimateAndFixGasParameters returns has maxFeePerGas >= 1 and a witnessLimit;
   executeWithFixedGasEstimation never ends in 'maxFeePerGas is still 0 after
   fixes', and once the estimation has returned it ends only after
   provider.sendTransaction has been called. *)
C29_FeeAtLeastOneAlwaysSent ==
  /\ EstimationFixed =>
       /\ gas.estimated.maxFeePerGas >= 1
       /\ gas.estimated.witnessLimit # Undefined
       /\ gas.pc = "done" => gas.sent
  /\ gas.outcome # Throw("maxFeePerGas is still 0 after fixes - transaction will fail")
  /\ \A request \in Requests : \A provided \in EstimatesOf(request) :
       (gas.pc = "idle" /\ gas.request = request) =>
         /\ estimateAndFixGasParameters(request, provided).maxFeePerGas >= 1
         /\ estimateAndFixGasParameters(request, provided).witnessLimit # Undefined

\* The original request carries a zero maxFeePerGas, the estimation has left
\* it missing, and the transaction has been sent with a maxFeePerGas of 1
C29_Witness ==
  /\ GasEnded("executeWithFixedGasEstimation")
  /\ gas.request.maxFeePerGas = 0
  /\ gas.request.witnessLimit = Undefined
  /\ gas.estimated.maxFeePerGas = 1
  /\ gas.estimated.witnessLimit = 12000
  /\ gas.sent
  /\ gas.outcome = Return("transaction result")

\* The raw error message of the error names BlobIdAlreadyUploaded, alone or
\* inside a longer text
NamesAlreadyUploaded(error) ==
  /\ error.rawError.present
  /\ error.rawError.hasMessage
  /\ error.rawError.message \in
       {AlreadyUploaded, <<"(">> \o AlreadyUploaded \o <<")">>}

\* The call of deployPredicateBlob has ended
DeployEnded == deploy.pc = "done"

(* C30: a call of deployPredicateBlob in which a statement has failed with a
   raw error message that contains 'BlobIdAlreadyUploaded' returns status
   'already_deployed', the blobId that calculateBlobId gives for the class and
   an empty transactionId; after every other failure the caught error itself
   is thrown; status 'success' is returned only when nothing has failed and
   waitForResult has completed. *)
C30_AlreadyUploadedIsSuccess ==
  DeployEnded =>
    /\ (deploy.caught /\ NamesAlreadyUploaded(deploy.error)) =>
         /\ ~deploy.thrown
         /\ deploy.result =
              [blobId |-> calculateBlobId(deploy.class.bytecode, deploy.class.abi).value,
               transactionId |-> "", status |-> "already_deployed"]
    /\ (deploy.caught /\ ~NamesAlreadyUploaded(deploy.error)) =>
         /\ deploy.thrown
         /\ deploy.thrownError = deploy.error
         /\ deploy.result = NoResult
         /\ \/ deploy.error \in RejectionsOf("getBaseAssetId") \cup RejectionsOf("getBalance")
                               \cup RejectionsOf("deploy") \cup RejectionsOf("waitForResult")
            \/ deploy.error = ErrorOf("No configurables found in ABI")
    /\ deploy.result.status = "success" =>
         /\ deploy.waited
         /\ ~deploy.caught
         /\ ~deploy.thrown
    /\ ~deploy.caught => deploy.result.status = "success"
    /\ ~deploy.thrown => deploy.thrownError = NoError

\* predicate.deploy has rejected with a raw error whose message has
\* BlobIdAlreadyUploaded inside a longer text, and the call has returned
\* 'already_deployed'
C30_Witness ==
  /\ DeployEnded
  /\ deploy.caught
  /\ deploy.error.thrower = "deploy"
  /\ deploy.error.rawError.message = <<"(">> \o AlreadyUploaded \o <<")">>
  /\ deploy.result.status = "already_deployed"
  /\ deploy.result.transactionId = ""
  /\ deploy.result.blobId = deploy.blobId

\* waitForResult has rejected with a raw error that names another failure, and
\* that error has been thrown
C30_WitnessRethrown ==
  /\ DeployEnded
  /\ deploy.error.thrower = "waitForResult"
  /\ deploy.error.rawError.message = <<"N", "o">>
  /\ deploy.thrown
  /\ deploy.thrownError = deploy.error

====
